---------------------------- MODULE Spec2Model ----------------------------
(***************************************************************************)
(* Investment-property projection engine of RentVsBuy.                     *)
(*                                                                         *)
(* The Python code computes on binary floating point.  The model computes  *)
(* on decimal fixed point: a float x is the integer round(x * Scale), and  *)
(* every product, quotient and power is rounded to the nearest multiple of *)
(* 1/Scale, as a float operation is rounded to the nearest float.  Hence   *)
(* equalities the code reaches "up to floating tolerance" are stated up to *)
(* Tol.  Integers of the code (years, month counts, list lengths) are      *)
(* plain integers.                                                         *)
(***************************************************************************)
EXTENDS Integers, Sequences, FiniteSets, TLC

VARIABLES
    entry,               \* the function the caller invoked
    args,                \* arguments of the call being executed (never reassigned)
    pc,                  \* position in the code of the call
    raised,              \* exception that left the call, or "none"
    loan_amount,         \* investment_metrics.py:42
    loan_years,          \* the local the code reassigns at investment_metrics.py:50
    total_months,        \* investment_metrics.py:52
    monthly_payments,    \* investment_metrics.py:53
    remaining_principal, \* investment_metrics.py:54
    current_month,       \* investment_metrics.py:55
    period,              \* index of the rate period the for loop of line 57 is at
    period_months,       \* investment_metrics.py:69
    monthly_rate,        \* investment_metrics.py:70
    payment,             \* investment_metrics.py:75
    month_in_period,     \* iterations done by the for loop of line 78
    last_principal,      \* principal portion of the latest scheduled month (line 84)
    last_interest,       \* interest portion of the latest scheduled month (line 83)
    pay_args,            \* arguments of a direct call of calculate_monthly_payment
    pay_result,          \* value that call returned
    m_args,              \* arguments of calculate_investment_metrics
    m_holding,           \* its local holding_period, reassigned at investment_metrics.py:213
    m_result,            \* the metrics computed so far, returned at lines 270-282
    eq_month,            \* index i of the equity loop, investment_metrics.py:255
    eq_balance,          \* remaining_balance of the equity loop, line 254
    df_loan,             \* loan table the caller builds from the payments
    df_balance,          \* remaining_balance while the caller builds the table
    cost_call,           \* latest call of calculate_yearly_breakdown: arguments and rows
    tax_call,            \* latest call of calculate_yearly_tax_breakdown
    cost_call_before,    \* the call of calculate_yearly_breakdown before the latest one
    tax_call_before,     \* the call of calculate_yearly_tax_breakdown before the latest one
    equity,              \* the equity series show() computes for the three scenarios
    ratio_args,          \* arguments of a direct call of calculate_cap_rate or calculate_coc_return
    ratio_result,        \* value that call returned
    irr_args,            \* arguments of a direct call of calculate_irr
    irr_solver,          \* what npf.irr did with the flows of that call
    irr_result,          \* value calculate_irr returned
    tax_incomes,         \* the incomes a caller passes to calculate_tax_brackets, in turn
    tax_results,         \* the mappings those calls returned so far
    tax_cache,           \* the lru_cache of calculate_tax_brackets: income -> stored mapping
    cap_cache,           \* the lru_cache of calculate_cap_rate: arguments -> stored value
    cache_steps,         \* calls and modifications the caller of the cached functions made
    last_call,           \* the latest call of a cached function and what it returned
    lookup_args,         \* rate periods and month of a rate lookup
    lookup_result,       \* what each get_rate_for_month returned for them
    mortgage_args,       \* arguments of a call of calculate_mortgage_details
    mortgage_result,     \* the MortgageCalculation it returned
    utility_payment,     \* what calculate_monthly_mortgage_payment returned for that loan
    purchase_params,     \* the PurchaseScenarioParams of a call of calculate_purchase_scenario
    purchase,            \* its local variables
    yearly_details,      \* the YearlyPurchaseDetails appended so far
    property_values,     \* the property values appended so far
    equity_values,       \* the equity values appended so far
    earlier_call         \* an earlier call of calculate_loan_details and what it returned

loanVars == <<loan_amount, loan_years, total_months, monthly_payments,
              remaining_principal, current_month, period, period_months,
              monthly_rate, payment, month_in_period, last_principal,
              last_interest>>

payVars == <<pay_args, pay_result>>

cacheVars == <<tax_cache, cap_cache, cache_steps, last_call>>

lookupVars == <<lookup_args, lookup_result>>

mortgageVars == <<mortgage_args, mortgage_result, utility_payment>>

scenarioVars == <<purchase_params, purchase, yearly_details, property_values, equity_values>>

repeatVars == <<earlier_call>>

\* What calculate_loan_details never touches.
metricsVars == <<m_args, m_holding, m_result, eq_month, eq_balance>>

callerVars == <<df_loan, df_balance, cost_call, tax_call, cost_call_before, tax_call_before,
                equity>>

engineVars == <<ratio_args, ratio_result, irr_args, irr_solver, irr_result,
                tax_incomes, tax_results>>

\* What calculate_loan_details never touches.
nonLoanVars == <<entry, payVars, repeatVars, scenarioVars, mortgageVars, lookupVars, engineVars, metricsVars, callerVars, cacheVars>>

vars == <<entry, args, pc, raised, loanVars, repeatVars, scenarioVars, mortgageVars, lookupVars, payVars, engineVars, metricsVars, callerVars,
          cacheVars>>

----------------------------------------------------------------------------
(* Fixed-point arithmetic standing for the code's float arithmetic.        *)

ScaleRoot == 10 ^ 3
Scale == ScaleRoot * ScaleRoot
ScaleDigits == 3 + 3

\* Largest deviation accepted where the code is exact only up to rounding:
\* 0.002 on loans of at most 100.
Tol == 2 * ScaleRoot

Abs(x) == IF x < 0 THEN -x ELSE x
Max(a, b) == IF a >= b THEN a ELSE b
Min(a, b) == IF a <= b THEN a ELSE b
Sign(x) == IF x < 0 THEN -1 ELSE 1

\* The float of an integer literal or integer argument.
Fx(n) == n * Scale

\* a * b for non-negative fixed-point a, b, rounded to nearest; the operands
\* are split at ScaleRoot so that no intermediate product leaves 32 bits.
MulNat(a, b) ==
    LET a1 == a \div ScaleRoot
        a0 == a % ScaleRoot
        b1 == b \div ScaleRoot
        b0 == b % ScaleRoot
        m  == a1 * b0 + a0 * b1
        t  == (m % ScaleRoot) * ScaleRoot + a0 * b0
    IN  a1 * b1 + (m \div ScaleRoot) + ((t + Scale \div 2) \div Scale)

\* float * float
Mul(a, b) == Sign(a) * Sign(b) * MulNat(Abs(a), Abs(b))

RECURSIVE DivDigits(_, _, _, _)
DivDigits(q, r, b, n) ==
    IF n = 0
    THEN q + (IF 2 * r >= b THEN 1 ELSE 0)
    ELSE DivDigits(q * 10 + ((r * 10) \div b), (r * 10) % b, b, n - 1)

\* float / float for a non-zero divisor (long division, rounded to nearest)
FDiv(a, b) ==
    Sign(a) * Sign(b) *
        DivDigits(Abs(a) \div Abs(b), Abs(a) % Abs(b), Abs(b), ScaleDigits)

\* float / integer literal (n > 0), rounded to nearest
DivInt(a, n) == Sign(a) * ((Abs(a) + (n \div 2)) \div n)

\* float ** integer, by repeated squaring
RECURSIVE Pow(_, _)
Pow(x, n) ==
    IF n = 0 THEN Scale
    ELSE IF n < 0 THEN FDiv(Scale, Pow(x, -n))
    ELSE LET h == Pow(x, n \div 2)
         IN  IF n % 2 = 0 THEN Mul(h, h) ELSE Mul(Mul(h, h), x)

RECURSIVE SumSeq(_)
SumSeq(s) == IF s = <<>> THEN 0 ELSE Head(s) + SumSeq(Tail(s))

Zeros(n) == [i \in 1..n |-> 0]

----------------------------------------------------------------------------
(* calculate_monthly_payment of investment_metrics.py, the function        *)
(* calculate_loan_details calls.                                           *)

MonthsPerYear == 12
PercentBase == 100

\* annual_rate / (12 * 100)
MonthlyRate(annual_rate) == DivInt(Fx(annual_rate), MonthsPerYear * PercentBase)

\* The divisor (1 + monthly_rate) ** term - 1 of the annuity formula.
PaymentDivisor(annual_rate, term) ==
    Pow(Scale + MonthlyRate(annual_rate), term) - Scale

\* TRUE when the division of line 98 raises ZeroDivisionError.
MonthlyPaymentDividesByZero(annual_rate, term) ==
    PaymentDivisor(annual_rate, term) = 0

\* Mutant of calculate_monthly_payment: the divisor with its sign reversed.
calculate_monthly_payment_reversed(principal, annual_rate, term) ==
    LET r   == MonthlyRate(annual_rate)
        pw  == Pow(Scale + r, term)
    IN  FDiv(Mul(Mul(principal, r), pw), Scale - pw)

\* Mutant of calculate_monthly_payment: the rate of the schedule's last
\* period where it is not 0, in place of the period's own.
calculate_monthly_payment_at_last_rate(principal, annual_rate, term) ==
    LET n    == Len(args.interest_rates)
        last == IF n = 0 THEN 0 ELSE args.interest_rates[n].rate
        r    == MonthlyRate(IF last = 0 THEN annual_rate ELSE last)
        pw   == Pow(Scale + r, term)
    IN  FDiv(Mul(Mul(principal, r), pw), pw - Scale)

\* principal * monthly_rate * (1 + monthly_rate) ** term / ((1 + monthly_rate) ** term - 1),
\* evaluated left to right as Python does; defined when the divisor is not 0.
calculate_monthly_payment(principal, annual_rate, term) ==
    LET r   == MonthlyRate(annual_rate)
        pw  == Pow(Scale + r, term)
    IN  FDiv(Mul(Mul(principal, r), pw), pw - Scale)

----------------------------------------------------------------------------
(* Inputs.                                                                 *)

MaxPeriods == 2
MaxYears == 2

Rates == {0, 6, 12}
OneTimePayments == {0, 30, 200}
Prices == {0, 100}
DownPayments == {20, 100}
LoanYears == {1, 3}

RatePeriod == [rate : Rates, years : 1..MaxYears, one_time_payment : OneTimePayments]

RECURSIVE SeqsUpTo(_, _)
SeqsUpTo(S, n) ==
    IF n = 0 THEN {<<>>}
    ELSE LET shorter == SeqsUpTo(S, n - 1)
         IN  shorter \cup {Append(s, x) : s \in {t \in shorter : Len(t) = n - 1}, x \in S}

ValidLoanArgs ==
    [price : Prices, down_payment_pct : DownPayments,
     interest_rates : SeqsUpTo(RatePeriod, MaxPeriods), loan_years : LoanYears]

\* One field of a valid call replaced by a value the validation must refuse.
BaseRates == <<[rate |-> 6, years |-> 1, one_time_payment |-> 0]>>
BadPeriods ==
    { [rate |-> -1, years |-> 1, one_time_payment |-> 0],
      [rate |-> 6, years |-> 0, one_time_payment |-> 0],
      [rate |-> 6, years |-> -1, one_time_payment |-> 0],
      [rate |-> 6, years |-> 1, one_time_payment |-> -5] }
InvalidLoanArgs ==
    LET base == [price |-> 100, down_payment_pct |-> 20,
                 interest_rates |-> BaseRates, loan_years |-> 1]
    IN  { [base EXCEPT !.price = -100],
          [base EXCEPT !.down_payment_pct = -20],
          [base EXCEPT !.down_payment_pct = 120],
          [base EXCEPT !.loan_years = 0],
          [base EXCEPT !.loan_years = 0, !.interest_rates = <<>>] }
        \cup { [base EXCEPT !.interest_rates = <<p>>] : p \in BadPeriods }
        \cup { [base EXCEPT !.interest_rates = BaseRates \o <<p>>] : p \in BadPeriods }

----------------------------------------------------------------------------
(* calculate_loan_details, investment_metrics.py:13-94.                    *)

SumYears(rates) == SumSeq([i \in 1..Len(rates) |-> rates[i].years])

\* The checks of lines 28-40; the first that fails raises ValueError.
LoanArgsRejected(a) ==
    \/ a.price < 0
    \/ a.down_payment_pct < 0 \/ a.down_payment_pct > 100
    \/ a.loan_years <= 0
    \/ \E i \in 1..Len(a.interest_rates) :
          \/ a.interest_rates[i].rate < 0
          \/ a.interest_rates[i].years <= 0
          \/ a.interest_rates[i].one_time_payment < 0

\* Mutant of LoanAmount: the down payment taken as an amount, not a percentage.
LoanAmountLessDownPayment(price, down_payment_pct) ==
    Fx(price) - Fx(down_payment_pct)

\* price * (1 - down_payment_pct / 100), line 42
LoanAmount(price, down_payment_pct) ==
    Mul(Fx(price), Scale - DivInt(Fx(down_payment_pct), PercentBase))

LoanLocalsInit ==
    /\ loan_amount = 0
    /\ loan_years = 0
    /\ total_months = 0
    /\ monthly_payments = <<>>
    /\ remaining_principal = 0
    /\ current_month = 0
    /\ period = 0
    /\ period_months = 0
    /\ monthly_rate = 0
    /\ payment = 0
    /\ month_in_period = 0
    /\ last_principal = 0
    /\ last_interest = 0

NoArgs == [price |-> 0, down_payment_pct |-> 0, interest_rates |-> <<>>, loan_years |-> 0]
NoPayArgs == [principal |-> 0, annual_rate |-> 0, term |-> 0]

PayIdle ==
    /\ pay_args = NoPayArgs
    /\ pay_result = 0

NoRatioArgs == [numerator |-> 0, denominator |-> 0]
NoIrrArgs == [initial_investment |-> 0, cash_flows |-> <<>>, final_value |-> 0]

NoLastCall == [fn |-> "none", key |-> 0, value |-> 0]

CacheIdle ==
    /\ tax_cache = <<>>
    /\ cap_cache = <<>>
    /\ cache_steps = 0
    /\ last_call = NoLastCall

EngineIdle ==
    /\ ratio_args = NoRatioArgs
    /\ ratio_result = 0
    /\ irr_args = NoIrrArgs
    /\ irr_solver = "none"
    /\ irr_result = [nan |-> FALSE, value |-> 0]
    /\ tax_incomes = <<>>
    /\ tax_results = <<>>
    /\ CacheIdle

NoExpenses == [property_tax |-> 0, insurance |-> 0, utilities |-> 0,
               mgmt_fee |-> 0, maintenance |-> 0, hoa_fees |-> 0]
NoMetricsArgs ==
    [purchase_price |-> 0, down_payment_pct |-> 0, interest_rates |-> <<>>,
     holding_period |-> 0, monthly_rent |-> 0, annual_rent_increase |-> 0,
     operating_expenses |-> NoExpenses, vacancy_rate |-> 0]
NoMetrics ==
    [monthly_payments |-> <<>>, monthly_cash_flows |-> <<>>, annual_cash_flows |-> <<>>,
     noi |-> 0, cap_rate |-> 0, coc_return |-> 0, final_property_value |-> 0,
     equity_from_principal |-> 0, equity_from_appreciation |-> 0, total_equity |-> 0]
NoCall == [made |-> FALSE, a |-> <<>>, years |-> <<>>, rows |-> <<>>]

NoEquity == [made |-> FALSE, down_payment_amount |-> 0, closing_costs |-> 0,
             total_holding_period |-> 0, rates |-> <<>>,
             conservative_equity |-> <<>>, moderate_equity |-> <<>>,
             optimistic_equity |-> <<>>]

MetricsIdle ==
    /\ m_args = NoMetricsArgs
    /\ m_holding = 0
    /\ m_result = NoMetrics
    /\ eq_month = 0
    /\ eq_balance = 0

NoLookupArgs == [rates |-> <<>>, month |-> 0]
NoLookup == [metrics_done |-> FALSE, metrics |-> 0, caller_done |-> FALSE, caller |-> 0]

LookupIdle ==
    /\ lookup_args = NoLookupArgs
    /\ lookup_result = NoLookup

NoMortgageArgs == [house_price |-> 0, down_payment_pct |-> 0, interest_rate |-> 0, years |-> 0]
NoMortgage == [made |-> FALSE, monthly_payment |-> 0, first_principal |-> 0,
               first_interest |-> 0]
NoPayment == [made |-> FALSE, value |-> 0]

MortgageIdle ==
    /\ mortgage_args = NoMortgageArgs
    /\ mortgage_result = NoMortgage
    /\ utility_payment = NoPayment

NoEarlierCall == [made |-> FALSE, interest_rates |-> <<>>, monthly_payments |-> <<>>, k |-> 0]
RepeatIdle == earlier_call = NoEarlierCall

NoUtility == [base |-> 0, inflation |-> 0]
NoPurchaseParams ==
    [house_price |-> 0, down_payment_pct |-> 0, interest_rate |-> 0, years |-> 0,
     property_tax_rate |-> 0, maintenance_rate |-> 0, insurance |-> 0,
     insurance_inflation |-> 0, appreciation_rate |-> 0, monthly_investment |-> 0,
     investment_return |-> 0, investment_increase_rate |-> 0,
     utilities |-> [electricity |-> NoUtility, water |-> NoUtility, other |-> NoUtility]]
NoPurchase ==
    [loan_amount |-> 0, monthly_rate |-> 0, initial_costs |-> 0, monthly_payment |-> 0,
     investment_portfolio |-> 0, current_monthly_investment |-> 0, remaining_loan |-> 0,
     total_interest_to_date |-> 0, total_principal_to_date |-> 0,
     current_insurance |-> 0, year |-> 0, month |-> 0, yearly_utilities |-> 0,
     current_home_value |-> 0, yearly_tax |-> 0, yearly_maintenance |-> 0,
     yearly_mortgage |-> 0, yearly_interest_paid |-> 0, yearly_principal_paid |-> 0]

ScenarioIdle ==
    /\ purchase_params = NoPurchaseParams
    /\ purchase = NoPurchase
    /\ yearly_details = <<>>
    /\ property_values = <<>>
    /\ equity_values = <<>>

CallerIdle ==
    /\ df_loan = <<>>
    /\ df_balance = 0
    /\ cost_call = NoCall
    /\ tax_call = NoCall
    /\ cost_call_before = NoCall
    /\ tax_call_before = NoCall
    /\ equity = NoEquity

Init ==
    /\ entry = "calculate_loan_details"
    /\ args \in ValidLoanArgs \cup InvalidLoanArgs
    /\ pc = "loan_entry"
    /\ raised = "none"
    /\ LoanLocalsInit
    /\ PayIdle
    /\ MetricsIdle
    /\ CallerIdle
    /\ RepeatIdle
    /\ ScenarioIdle
    /\ MortgageIdle
    /\ LookupIdle
    /\ EngineIdle

\* Lines 28-40: invalid arguments raise before anything is computed.
RejectLoanArgs ==
    /\ pc = "loan_entry"
    /\ LoanArgsRejected(args)
    /\ pc' = "raised"
    /\ raised' = "ValueError"
    /\ UNCHANGED <<nonLoanVars, args, loanVars, repeatVars, scenarioVars, mortgageVars, lookupVars>>

\* Lines 42-44: no rate periods, an all-zero schedule of the caller's term.
ReturnEmptyRates ==
    /\ pc = "loan_entry"
    /\ ~LoanArgsRejected(args)
    /\ args.interest_rates = <<>>
    /\ loan_amount' = LoanAmount(args.price, args.down_payment_pct)
    /\ loan_years' = args.loan_years
    /\ monthly_payments' = Zeros(args.loan_years * MonthsPerYear)
    /\ pc' = "returned"
    /\ UNCHANGED <<nonLoanVars, args, raised, total_months, remaining_principal, current_month,
                   period, period_months, monthly_rate, payment, month_in_period,
                   last_principal, last_interest>>

\* Lines 42-55: the term is recomputed from the rate periods.
BeginSchedule ==
    /\ pc = "loan_entry"
    /\ ~LoanArgsRejected(args)
    /\ args.interest_rates # <<>>
    /\ loan_amount' = LoanAmount(args.price, args.down_payment_pct)
    /\ loan_years' = SumYears(args.interest_rates)
    /\ total_months' = SumYears(args.interest_rates) * MonthsPerYear
    /\ monthly_payments' = <<>>
    /\ remaining_principal' = LoanAmount(args.price, args.down_payment_pct)
    /\ current_month' = 0
    /\ period' = 1
    /\ pc' = "period"
    /\ UNCHANGED <<nonLoanVars, args, raised, period_months, monthly_rate, payment,
                   month_in_period, last_principal, last_interest>>

\* Mutant of AfterOneTimePayment: the payment is not capped at the balance.
AfterOneTimePaymentUncapped(balance, one_time_payment) ==
    balance - Fx(one_time_payment)

\* Mutant of AfterOneTimePayment: the payment is not applied.
AfterOneTimePaymentIgnored(balance, one_time_payment) == balance

\* remaining_principal after the one-time payment of line 62
AfterOneTimePayment(balance, one_time_payment) ==
    Max(0, balance - Fx(one_time_payment))

\* Lines 57-59 and 90-94: the loop over the periods ends (exhausted, or the
\* break of line 59), the schedule is padded with zeros and returned.
FinishSchedule ==
    /\ pc = "period"
    /\ \/ period > Len(args.interest_rates)
       \/ current_month >= total_months
       \/ remaining_principal <= 0
    /\ monthly_payments' =
          IF Len(monthly_payments) < total_months
          THEN monthly_payments \o Zeros(total_months - Len(monthly_payments))
          ELSE monthly_payments
    /\ pc' = "returned"
    /\ UNCHANGED <<nonLoanVars, args, raised, loan_amount, loan_years, total_months,
                   remaining_principal, current_month, period, period_months,
                   monthly_rate, payment, month_in_period, last_principal,
                   last_interest>>

PeriodEntered ==
    /\ pc = "period"
    /\ period <= Len(args.interest_rates)
    /\ current_month < total_months
    /\ remaining_principal > 0

\* Lines 62-66: the one-time payment clears the balance; the period is all zeros.
PayOffByOneTimePayment ==
    /\ PeriodEntered
    /\ LET p == args.interest_rates[period] IN
        /\ AfterOneTimePayment(remaining_principal, p.one_time_payment) <= 0
        /\ remaining_principal' = AfterOneTimePayment(remaining_principal, p.one_time_payment)
        /\ monthly_payments' = monthly_payments \o Zeros(p.years * MonthsPerYear)
        /\ current_month' = current_month + p.years * MonthsPerYear
    /\ period' = period + 1
    /\ UNCHANGED <<nonLoanVars, args, pc, raised, loan_amount, loan_years, total_months,
                   period_months, monthly_rate, payment, month_in_period,
                   last_principal, last_interest>>

\* Lines 62-75 when the payment formula divides by zero: ZeroDivisionError
\* leaves calculate_loan_details.
PaymentRaises ==
    /\ PeriodEntered
    /\ LET p == args.interest_rates[period] IN
        /\ AfterOneTimePayment(remaining_principal, p.one_time_payment) > 0
        /\ MonthlyPaymentDividesByZero(p.rate, total_months - current_month)
        /\ remaining_principal' = AfterOneTimePayment(remaining_principal, p.one_time_payment)
        /\ period_months' = Min(p.years * MonthsPerYear, total_months - current_month)
        /\ monthly_rate' = MonthlyRate(p.rate)
    /\ pc' = "raised"
    /\ raised' = "ZeroDivisionError"
    /\ UNCHANGED <<nonLoanVars, args, loan_amount, loan_years, total_months, monthly_payments,
                   current_month, period, payment, month_in_period,
                   last_principal, last_interest>>

\* Lines 62-75: one-time payment, then a level payment that amortizes the
\* remaining balance over the remaining months of the whole loan.
BeginPeriod ==
    /\ PeriodEntered
    /\ LET p == args.interest_rates[period] IN
        /\ AfterOneTimePayment(remaining_principal, p.one_time_payment) > 0
        /\ ~MonthlyPaymentDividesByZero(p.rate, total_months - current_month)
        /\ remaining_principal' = AfterOneTimePayment(remaining_principal, p.one_time_payment)
        /\ period_months' = Min(p.years * MonthsPerYear, total_months - current_month)
        /\ monthly_rate' = MonthlyRate(p.rate)
        /\ payment' = calculate_monthly_payment(
                          AfterOneTimePayment(remaining_principal, p.one_time_payment),
                          p.rate, total_months - current_month)
    /\ month_in_period' = 0
    /\ pc' = "month"
    /\ UNCHANGED <<nonLoanVars, args, raised, loan_amount, loan_years, total_months,
                   monthly_payments, current_month, period, last_principal,
                   last_interest>>

\* Mutant of PrincipalPortion: the whole payment goes to the principal.
PrincipalPortionWholePayment(pay, balance, rate) == Min(pay, balance)

\* Mutant of InterestPortion: no interest accrues.
InterestPortionNone(balance, rate) == 0

\* interest = remaining_principal * monthly_rate, line 83
InterestPortion(balance, rate) == Mul(balance, rate)

\* principal = min(payment - interest, remaining_principal), line 84
PrincipalPortion(pay, balance, rate) == Min(pay - InterestPortion(balance, rate), balance)

\* Lines 78-86: one month of the period.
MonthStep ==
    /\ pc = "month"
    /\ month_in_period < period_months
    /\ IF remaining_principal <= 0
       THEN /\ monthly_payments' = Append(monthly_payments, 0)
            /\ UNCHANGED <<remaining_principal, last_principal, last_interest>>
       ELSE /\ last_interest' = InterestPortion(remaining_principal, monthly_rate)
            /\ last_principal' = PrincipalPortion(payment, remaining_principal, monthly_rate)
            /\ remaining_principal' =
                  Max(0, remaining_principal
                           - PrincipalPortion(payment, remaining_principal, monthly_rate))
            /\ monthly_payments' = Append(monthly_payments, payment)
    /\ month_in_period' = month_in_period + 1
    /\ UNCHANGED <<nonLoanVars, args, pc, raised, loan_amount, loan_years, total_months,
                   current_month, period, period_months, monthly_rate, payment>>

\* Line 88: the period is over, on to the next one.
EndPeriod ==
    /\ pc = "month"
    /\ month_in_period = period_months
    /\ current_month' = current_month + period_months
    /\ period' = period + 1
    /\ pc' = "period"
    /\ UNCHANGED <<nonLoanVars, args, raised, loan_amount, loan_years, total_months,
                   monthly_payments, remaining_principal, period_months,
                   monthly_rate, payment, month_in_period, last_principal,
                   last_interest>>

Next ==
    \/ RejectLoanArgs
    \/ ReturnEmptyRates
    \/ BeginSchedule
    \/ FinishSchedule
    \/ PayOffByOneTimePayment
    \/ PaymentRaises
    \/ BeginPeriod
    \/ MonthStep
    \/ EndPeriod

Spec == Init /\ [][Next]_vars

----------------------------------------------------------------------------
(* calculate_monthly_payment called on its own, investment_metrics.py:96-98:*)
(* the function has no validation of its own.                              *)

Principals == {-300, -100, 0, 50, 100, 300}
AnnualRates == {-6, 0, 3, 6, 12}
Terms == {-12, 0, 1, 12, 24}

PayArgs == [principal : Principals, annual_rate : AnnualRates, term : Terms]

LoanIdle ==
    /\ args = NoArgs
    /\ LoanLocalsInit

InitPayment ==
    /\ entry = "calculate_monthly_payment"
    /\ pay_args \in PayArgs
    /\ pay_result = 0
    /\ pc = "payment_entry"
    /\ raised = "none"
    /\ LoanIdle
    /\ MetricsIdle
    /\ CallerIdle
    /\ RepeatIdle
    /\ ScenarioIdle
    /\ MortgageIdle
    /\ LookupIdle
    /\ EngineIdle

\* Line 98 divides by zero: ZeroDivisionError.
MonthlyPaymentRaises ==
    /\ pc = "payment_entry"
    /\ MonthlyPaymentDividesByZero(pay_args.annual_rate, pay_args.term)
    /\ pc' = "raised"
    /\ raised' = "ZeroDivisionError"
    /\ UNCHANGED <<entry, args, loanVars, repeatVars, scenarioVars, mortgageVars, lookupVars, payVars, engineVars, metricsVars, callerVars,
                   cacheVars>>

\* Lines 97-98: the annuity formula, whatever the signs of the arguments.
MonthlyPaymentReturns ==
    /\ pc = "payment_entry"
    /\ ~MonthlyPaymentDividesByZero(pay_args.annual_rate, pay_args.term)
    /\ pay_result' = calculate_monthly_payment(
                         Fx(pay_args.principal), pay_args.annual_rate, pay_args.term)
    /\ pc' = "returned"
    /\ UNCHANGED <<entry, args, raised, loanVars, repeatVars, scenarioVars, mortgageVars, lookupVars, pay_args, engineVars, metricsVars, callerVars,
                   cacheVars>>

NextPayment ==
    \/ MonthlyPaymentRaises
    \/ MonthlyPaymentReturns

SpecPayment == InitPayment /\ [][NextPayment]_vars

----------------------------------------------------------------------------
(* calculate_investment_metrics, investment_metrics.py:179-282, followed   *)
(* by the loan table its caller builds and the two yearly breakdowns.      *)
(* calculate_irr (line 268) is a numerical root search and is left out of  *)
(* the returned record.                                                    *)

MaxHoldingYears == 3

ExpenseNames == {"property_tax", "insurance", "utilities", "mgmt_fee", "maintenance", "hoa_fees"}

SomeExpenses == [property_tax |-> 3, insurance |-> 1, utilities |-> 1,
                 mgmt_fee |-> 1, maintenance |-> 1, hoa_fees |-> 1]

GrowingProfile ==
    [monthly_rent |-> 2, annual_rent_increase |-> 5, vacancy_rate |-> 10,
     operating_expenses |-> SomeExpenses]

\* monthly_rent, annual_rent_increase, vacancy_rate, operating_expenses
IncomeProfiles ==
    { [monthly_rent |-> 0, annual_rent_increase |-> 0, vacancy_rate |-> 0,
       operating_expenses |-> NoExpenses],
      [monthly_rent |-> 2, annual_rent_increase |-> 0, vacancy_rate |-> 0,
       operating_expenses |-> SomeExpenses],
      GrowingProfile }

\* The rate periods of the projections: every sequence of at most
\* MaxPeriods periods that lasts at most MaxYears + 1 years, with and
\* without a one-time payment that reduces the balance ...
ProjectionPeriods == [rate : {6, 12}, years : 1..MaxYears, one_time_payment : {0, 30}]
ProjectionRates ==
    { r \in SeqsUpTo(ProjectionPeriods, MaxPeriods) :
        r # <<>> /\ SumYears(r) <= MaxYears + 1 }

\* ... and a one-time payment that clears the balance, one that leaves
\* little of it, a zero rate, and no period at all.
SpecialRates ==
    { BaseRates,
      <<[rate |-> 6, years |-> 1, one_time_payment |-> 0],
        [rate |-> 6, years |-> 1, one_time_payment |-> 200]>>,
      <<[rate |-> 12, years |-> 1, one_time_payment |-> 75]>>,
      <<[rate |-> 0, years |-> 1, one_time_payment |-> 0]>>,
      <<>> }

MetricsArgsOf(price, dp, rates, holding, profile) ==
    [purchase_price |-> price, down_payment_pct |-> dp, interest_rates |-> rates,
     holding_period |-> holding, monthly_rent |-> profile.monthly_rent,
     annual_rent_increase |-> profile.annual_rent_increase,
     operating_expenses |-> profile.operating_expenses,
     vacancy_rate |-> profile.vacancy_rate]

ValidMetricsArgs ==
    { MetricsArgsOf(100, 20, rates, holding, GrowingProfile) :
        rates \in ProjectionRates, holding \in 1..MaxHoldingYears }
    \cup
    { MetricsArgsOf(100, dp, rates, holding, profile) :
        dp \in DownPayments, rates \in SpecialRates,
        holding \in 1..MaxHoldingYears, profile \in IncomeProfiles }

\* One field of a valid call replaced by a value the validation must refuse.
InvalidMetricsArgs ==
    LET base == MetricsArgsOf(100, 20, BaseRates, 1, GrowingProfile)
    IN  { [base EXCEPT !.purchase_price = -100],
          [base EXCEPT !.down_payment_pct = -20],
          [base EXCEPT !.down_payment_pct = 120],
          [base EXCEPT !.holding_period = 0],
          [base EXCEPT !.monthly_rent = -2],
          [base EXCEPT !.annual_rent_increase = -5],
          [base EXCEPT !.vacancy_rate = -10],
          [base EXCEPT !.vacancy_rate = 120],
          [base EXCEPT !.operating_expenses.insurance = -1],
          [base EXCEPT !.interest_rates = <<[rate |-> -1, years |-> 1, one_time_payment |-> 0]>>],
          [base EXCEPT !.interest_rates = <<[rate |-> 6, years |-> 0, one_time_payment |-> 0]>>] }

\* The checks of lines 185-204; the first that fails raises ValueError.
MetricsArgsRejected(a) ==
    \/ a.purchase_price < 0
    \/ a.down_payment_pct < 0 \/ a.down_payment_pct > 100
    \/ a.holding_period <= 0
    \/ a.monthly_rent < 0
    \/ a.annual_rent_increase < 0
    \/ a.vacancy_rate < 0 \/ a.vacancy_rate > 100
    \/ \E e \in ExpenseNames : a.operating_expenses[e] < 0
    \/ \E i \in 1..Len(a.interest_rates) :
          \/ a.interest_rates[i].rate < 0
          \/ a.interest_rates[i].years <= 0

InitProjection ==
    /\ entry = "calculate_investment_metrics"
    /\ m_args \in ValidMetricsArgs \cup InvalidMetricsArgs
    /\ m_holding = 0
    /\ m_result = NoMetrics
    /\ eq_month = 0
    /\ eq_balance = 0
    /\ pc = "metrics_entry"
    /\ raised = "none"
    /\ LoanIdle
    /\ PayIdle
    /\ CallerIdle
    /\ RepeatIdle
    /\ ScenarioIdle
    /\ MortgageIdle
    /\ LookupIdle
    /\ EngineIdle

RejectMetricsArgs ==
    /\ pc = "metrics_entry"
    /\ MetricsArgsRejected(m_args)
    /\ pc' = "raised"
    /\ raised' = "ValueError"
    /\ UNCHANGED <<entry, args, loanVars, repeatVars, scenarioVars, mortgageVars, lookupVars, payVars, engineVars, metricsVars, callerVars,
                   cacheVars>>

\* Lines 206-218: holding_period is replaced by the sum of the period years
\* and calculate_loan_details is called with it as loan_years.
CallLoanDetails ==
    /\ pc = "metrics_entry"
    /\ ~MetricsArgsRejected(m_args)
    /\ m_holding' = SumYears(m_args.interest_rates)
    /\ args' = [price |-> m_args.purchase_price,
                down_payment_pct |-> m_args.down_payment_pct,
                interest_rates |-> m_args.interest_rates,
                loan_years |-> SumYears(m_args.interest_rates)]
    /\ pc' = "loan_entry"
    /\ UNCHANGED <<entry, raised, loanVars, repeatVars, scenarioVars, mortgageVars, lookupVars, payVars, engineVars, m_args, m_result, eq_month,
                   eq_balance, callerVars, cacheVars>>

\* (1 + pct / 100) ** year
GrowthFactor(pct, year) == Pow(Scale + DivInt(Fx(pct), PercentBase), year)

\* 1 - pct / 100
ShareKept(pct) == Scale - DivInt(Fx(pct), PercentBase)

\* sum(operating_expenses.values()), line 231
AnnualExpenses(a) ==
    Fx(a.operating_expenses.property_tax + a.operating_expenses.insurance
       + a.operating_expenses.utilities + a.operating_expenses.mgmt_fee
       + a.operating_expenses.maintenance + a.operating_expenses.hoa_fees)

\* Lines 225-235 for month index m (from 0) and that month's mortgage payment.
MonthlyCashFlow(a, m, mortgage) ==
    LET factor == GrowthFactor(a.annual_rent_increase, m \div MonthsPerYear)
        monthly_rent == Mul(Fx(a.monthly_rent), factor)
        effective_rent == Mul(monthly_rent, ShareKept(a.vacancy_rate))
        monthly_expenses == Mul(DivInt(AnnualExpenses(a), MonthsPerYear), factor)
    IN  effective_rent - monthly_expenses - mortgage

\* np.sum(monthly_cash_flows.reshape(-1, 12), axis=1), line 239
AnnualSums(flows) ==
    [y \in 1..(Len(flows) \div MonthsPerYear) |->
        SumSeq(SubSeq(flows, (y - 1) * MonthsPerYear + 1, y * MonthsPerYear))]

\* calculate_noi, lines 100-107, on arguments the validation made non-negative
calculate_noi(annual_income, operating_expenses) == annual_income - operating_expenses

\* Mutant of calculate_cap_rate: only a zero property value is guarded.
calculate_cap_rate_zero_guard(noi, property_value) ==
    IF property_value = 0 THEN 0 ELSE FDiv(noi, property_value) * PercentBase

\* calculate_cap_rate, lines 109-114
calculate_cap_rate(noi, property_value) ==
    IF property_value <= 0 THEN 0 ELSE FDiv(noi, property_value) * PercentBase

\* calculate_coc_return, lines 116-121
calculate_coc_return(annual_cash_flow, total_investment) ==
    IF total_investment <= 0 THEN 0 ELSE FDiv(annual_cash_flow, total_investment) * PercentBase

\* Lines 220-254, once calculate_loan_details has returned.
ComputeCashFlows ==
    /\ entry = "calculate_investment_metrics"
    /\ pc = "returned"
    /\ LET months == m_holding * MonthsPerYear
           flows == [i \in 1..months |-> MonthlyCashFlow(m_args, i - 1, monthly_payments[i])]
           annual == AnnualSums(flows)
           total_investment == Mul(Fx(m_args.purchase_price),
                                   DivInt(Fx(m_args.down_payment_pct), PercentBase))
           first_year_rent == Mul(Fx(m_args.monthly_rent) * MonthsPerYear,
                                  ShareKept(m_args.vacancy_rate))
           noi == calculate_noi(first_year_rent, AnnualExpenses(m_args))
       IN  m_result' = [m_result EXCEPT
               !.monthly_cash_flows = flows,
               !.annual_cash_flows = annual,
               !.noi = noi,
               !.cap_rate = calculate_cap_rate(noi, Fx(m_args.purchase_price)),
               !.coc_return = calculate_coc_return(annual[1], total_investment),
               !.final_property_value =
                   Mul(Fx(m_args.purchase_price),
                       GrowthFactor(m_args.annual_rent_increase, m_holding))]
    /\ eq_month' = 0
    /\ eq_balance' = loan_amount
    /\ pc' = "equity"
    /\ UNCHANGED <<entry, args, raised, loanVars, repeatVars, scenarioVars, mortgageVars, lookupVars, payVars, engineVars, m_args, m_holding, callerVars,
                   cacheVars>>

\* Mutant of RateForMonth: the first month after a period still has its rate.
RECURSIVE RateForMonthInclusive(_, _, _, _)
RateForMonthInclusive(rates, month, i, total) ==
    IF i > Len(rates) THEN 0
    ELSE IF month <= total + rates[i].years * MonthsPerYear THEN rates[i].rate
    ELSE RateForMonthInclusive(rates, month, i + 1, total + rates[i].years * MonthsPerYear)

\* Lines 172-177 from period i on, total months counted so far.
RECURSIVE RateForMonth(_, _, _, _)
RateForMonth(rates, month, i, total) ==
    IF i > Len(rates) THEN 0
    ELSE IF month < total + rates[i].years * MonthsPerYear THEN rates[i].rate
    ELSE RateForMonth(rates, month, i + 1, total + rates[i].years * MonthsPerYear)

\* get_rate_for_month, investment_metrics.py:171-177
get_rate_for_month(rates, month) == RateForMonth(rates, month, 1, 0)

\* Lines 255-261: one month of the equity loop.
EquityStep ==
    /\ pc = "equity"
    /\ eq_month < Len(monthly_payments)
    /\ monthly_payments[eq_month + 1] # 0
    /\ LET rate == MonthlyRate(get_rate_for_month(m_args.interest_rates, eq_month))
           interest == Mul(eq_balance, rate)
           principal == monthly_payments[eq_month + 1] - interest
       IN  eq_balance' = eq_balance - principal
    /\ eq_month' = eq_month + 1
    /\ UNCHANGED <<entry, args, pc, raised, loanVars, repeatVars, scenarioVars, mortgageVars, lookupVars, payVars, engineVars, m_args, m_holding,
                   m_result, callerVars, cacheVars>>

\* Lines 256-257 and 263-282: the loop ends (or breaks at a zero payment) and
\* the metrics are returned.
ReturnMetrics ==
    /\ pc = "equity"
    /\ IF eq_month = Len(monthly_payments)
       THEN TRUE
       ELSE monthly_payments[eq_month + 1] = 0
    /\ LET equity_from_principal == loan_amount - eq_balance
           equity_from_appreciation ==
               m_result.final_property_value - Fx(m_args.purchase_price)
       IN  m_result' = [m_result EXCEPT
               !.monthly_payments = monthly_payments,
               !.equity_from_principal = equity_from_principal,
               !.equity_from_appreciation = equity_from_appreciation,
               !.total_equity = equity_from_principal + equity_from_appreciation]
    /\ pc' = "metrics_returned"
    /\ UNCHANGED <<entry, args, raised, loanVars, repeatVars, scenarioVars, mortgageVars, lookupVars, payVars, engineVars, m_args, m_holding,
                   eq_month, eq_balance, callerVars, cacheVars>>

----------------------------------------------------------------------------
(* The caller, investment_property.py: the loan table of lines 456-470.    *)

RECURSIVE CallerRateForMonth(_, _, _, _)
CallerRateForMonth(rates, month, i, months_passed) ==
    IF i > Len(rates)
    THEN (IF rates = <<>> THEN 0 ELSE rates[Len(rates)].rate)
    ELSE IF month < months_passed + rates[i].years * MonthsPerYear THEN rates[i].rate
    ELSE CallerRateForMonth(rates, month, i + 1,
                            months_passed + rates[i].years * MonthsPerYear)

\* get_rate_for_month of investment_property.py:17-25
caller_get_rate_for_month(rates, month) == CallerRateForMonth(rates, month, 1, 0)

\* Lines 456-457: the table starts empty, the balance at the loan amount
\* (line 69).
BeginLoanTable ==
    /\ pc = "metrics_returned"
    /\ df_loan' = <<>>
    /\ df_balance' = LoanAmount(m_args.purchase_price, m_args.down_payment_pct)
    /\ pc' = "loan_table"
    /\ UNCHANGED <<entry, args, raised, loanVars, repeatVars, scenarioVars, mortgageVars, lookupVars, payVars, engineVars, metricsVars, cost_call,
                   tax_call, cost_call_before, tax_call_before, equity, cacheVars>>

\* Lines 458-467: one row per month of the schedule.
AppendLoanRow ==
    /\ pc = "loan_table"
    /\ Len(df_loan) < Len(m_result.monthly_payments)
    /\ LET month == Len(df_loan)
           current_rate == caller_get_rate_for_month(m_args.interest_rates, month)
           interest_payment == Mul(df_balance, MonthlyRate(current_rate))
           principal_payment == m_result.monthly_payments[month + 1] - interest_payment
       IN  /\ df_balance' = df_balance - principal_payment
           /\ df_loan' = Append(df_loan, [Principal |-> principal_payment,
                                          Interest |-> interest_payment,
                                          Balance |-> df_balance - principal_payment])
    /\ UNCHANGED <<entry, args, pc, raised, loanVars, repeatVars, scenarioVars, mortgageVars, lookupVars, payVars, engineVars, metricsVars, cost_call,
                   tax_call, cost_call_before, tax_call_before, equity, cacheVars>>

LoanTableBuilt ==
    /\ pc = "loan_table"
    /\ Len(df_loan) = Len(m_result.monthly_payments)

----------------------------------------------------------------------------
(* YearlyCostAndRevenueBreakdownCalculator.calculate_yearly_breakdown,     *)
(* yearly_cost_and_revenue_breakdown.py:11-109.                            *)

OtherIncomes == {0, 1}
InflationRates == {0, 3}
ConservativeRates == {3, 5}

\* The arguments the caller takes from the inputs it gave
\* calculate_investment_metrics, with the rest chosen freely.
CostArgsOf(a, other_income, annual_inflation, conservative_rate) ==
    [total_holding_period |-> a.holding_period,
     purchase_price |-> a.purchase_price,
     monthly_rent |-> a.monthly_rent,
     annual_rent_increase |-> a.annual_rent_increase,
     other_income |-> other_income,
     vacancy_rate |-> a.vacancy_rate,
     property_tax |-> a.operating_expenses.property_tax,
     annual_inflation |-> annual_inflation,
     insurance |-> a.operating_expenses.insurance,
     utilities |-> a.operating_expenses.utilities,
     mgmt_fee |-> a.operating_expenses.mgmt_fee,
     monthly_maintenance |-> a.operating_expenses.maintenance,
     conservative_rate |-> conservative_rate,
     hoa_fees |-> a.operating_expenses.hoa_fees]

CostArgs(a) ==
    { CostArgsOf(a, o, i, c) :
        o \in OtherIncomes, i \in InflationRates, c \in ConservativeRates }

\* s[start_idx:end_idx] of a list or a column (indices from 0, clipped)
Slice(s, start_idx, end_idx) == SubSeq(s, start_idx + 1, Min(end_idx, Len(s)))

Column(frame, name) == [i \in 1..Len(frame) |-> frame[i][name]]

\* Mutant of CostYearMortgage: the first payment of the schedule stands for
\* every month of the year.
CostYearMortgageFirstPayment(payments, year) ==
    IF year < Len(payments) \div MonthsPerYear
    THEN payments[1] * MonthsPerYear
    ELSE 0

\* year_mortgage, lines 75-84
CostYearMortgage(payments, year) ==
    IF year < Len(payments) \div MonthsPerYear
    THEN SumSeq(Slice(payments, year * MonthsPerYear, year * MonthsPerYear + MonthsPerYear))
    ELSE 0

\* Lines 59-89: the values of one year (year from 0).
CostYear(a, payments, loan, year) ==
    LET inflation == GrowthFactor(a.annual_inflation, year)
        in_schedule == year < Len(payments) \div MonthsPerYear
        start_idx == year * MonthsPerYear
        end_idx == start_idx + MonthsPerYear
        year_monthly_rent == Mul(Fx(a.monthly_rent), GrowthFactor(a.annual_rent_increase, year))
        year_monthly_income == year_monthly_rent + Fx(a.other_income)
        year_monthly_vacancy_loss ==
            Mul(year_monthly_income, DivInt(Fx(a.vacancy_rate), PercentBase))
        year_property_tax == Mul(Fx(a.property_tax), inflation)
        year_insurance == Mul(Fx(a.insurance), inflation)
        year_utilities == Mul(Fx(a.utilities), inflation) * MonthsPerYear
        year_mgmt_fee == Mul(Fx(a.mgmt_fee), inflation) * MonthsPerYear
        year_maintenance == Mul(Fx(a.monthly_maintenance) * MonthsPerYear,
                                GrowthFactor(a.conservative_rate, year))
        year_hoa == Mul(Fx(a.hoa_fees), inflation) * MonthsPerYear
        year_mortgage == CostYearMortgage(payments, year)
        year_principal == IF in_schedule
                          THEN SumSeq(Slice(Column(loan, "Principal"), start_idx, end_idx))
                          ELSE 0
        year_interest == IF in_schedule
                         THEN SumSeq(Slice(Column(loan, "Interest"), start_idx, end_idx))
                         ELSE 0
    IN  [year_monthly_income |-> year_monthly_income,
         year_monthly_vacancy_loss |-> year_monthly_vacancy_loss,
         year_property_tax |-> year_property_tax,
         year_insurance |-> year_insurance,
         year_utilities |-> year_utilities,
         year_mgmt_fee |-> year_mgmt_fee,
         year_maintenance |-> year_maintenance,
         year_hoa |-> year_hoa,
         conservative_value |-> Mul(Fx(a.purchase_price),
                                    GrowthFactor(a.conservative_rate, year)),
         year_principal |-> year_principal,
         year_interest |-> year_interest,
         year_mortgage |-> year_mortgage,
         year_cash_flow |->
             (year_monthly_income * MonthsPerYear)
             - (year_monthly_vacancy_loss * MonthsPerYear)
             - year_property_tax - year_insurance - year_utilities
             - year_mgmt_fee - year_maintenance - year_hoa - year_mortgage]

\* f"${x:,.2f}": the amount rounded to cents, in cents
CentsPerUnit == 10 * 10
Formatted(x) ==
    Sign(x) * ((Abs(x) + (Scale \div (2 * CentsPerUnit))) \div (Scale \div CentsPerUnit))

\* Lines 91-107: the row of the returned frame.
CostRow(v, year, conservative_equity) ==
    [Year |-> year + 1,
     RentalIncome |-> Formatted(v.year_monthly_income * MonthsPerYear),
     VacancyLoss |-> Formatted(v.year_monthly_vacancy_loss * MonthsPerYear),
     PropertyTax |-> Formatted(v.year_property_tax),
     Insurance |-> Formatted(v.year_insurance),
     Utilities |-> Formatted(v.year_utilities),
     ManagementFee |-> Formatted(v.year_mgmt_fee),
     Maintenance |-> Formatted(v.year_maintenance),
     HOAFees |-> Formatted(v.year_hoa),
     MortgagePayment |-> Formatted(v.year_mortgage),
     PrincipalPaid |-> Formatted(v.year_principal),
     InterestPaid |-> Formatted(v.year_interest),
     CashFlow |-> Formatted(v.year_cash_flow),
     ConservativeValue |-> Formatted(v.conservative_value),
     Equity |-> Formatted(conservative_equity[year + 1])]

\* The list the caller passes as conservative_equity: one entry per year
\* from 0 to total_holding_period, investment_property.py:334-345.  Its
\* values only pass through to the "Equity" column.
ConservativeEquity(a) == Zeros(a.total_holding_period + 1)

calculate_yearly_breakdown(a, payments, loan, conservative_equity) ==
    LET years == [y \in 1..a.total_holding_period |-> CostYear(a, payments, loan, y - 1)]
    IN  [made |-> TRUE, a |-> a, years |-> years,
         rows |-> [y \in 1..a.total_holding_period |->
                      CostRow(years[y], y - 1, conservative_equity)]]

\* Two argument records that differ at most in conservative_rate.
SameButConservativeRate(a, b) ==
    /\ DOMAIN a = DOMAIN b
    /\ \A k \in DOMAIN a \ {"conservative_rate"} : a[k] = b[k]

\* The caller computes the breakdown once the loan table is built, and once
\* more when the appreciation input changes and the page is recomputed.
CallYearlyBreakdown ==
    /\ \/ LoanTableBuilt /\ ~cost_call.made
       \/ pc = "tax_done" /\ ~cost_call_before.made
    /\ \E a \in CostArgs(m_args) :
          /\ cost_call.made =>
                (SameButConservativeRate(a, cost_call.a) /\ a # cost_call.a)
          /\ cost_call' = calculate_yearly_breakdown(
                              a, m_result.monthly_payments, df_loan, ConservativeEquity(a))
    /\ cost_call_before' = cost_call
    /\ pc' = "cost_done"
    /\ UNCHANGED <<entry, args, raised, loanVars, repeatVars, scenarioVars, mortgageVars, lookupVars, payVars, engineVars, metricsVars, df_loan,
                   df_balance, tax_call, tax_call_before, equity, cacheVars>>

----------------------------------------------------------------------------
(* YearlyTaxBreakdownCalculator.calculate_yearly_tax_breakdown,            *)
(* yearly_income_tax_analysis.py:12-150.  The tax columns of lines 117-132 *)
(* are functions of year_salary and year_total_income alone; the rows kept *)
(* here are the values those columns are computed from.                    *)

AnnualSalaries == {0, 200}

\* The inflation inputs of the five categories that have one.
InflationInputs ==
    { [property_tax |-> 0, insurance |-> 0, utilities |-> 0, mgmt_fee |-> 0, hoa |-> 0],
      [property_tax |-> 3, insurance |-> 3, utilities |-> 3, mgmt_fee |-> 3, hoa |-> 3],
      [property_tax |-> 2, insurance |-> 3, utilities |-> 0, mgmt_fee |-> 5, hoa |-> 1] }

TaxArgsOf(c, inflation, annual_salary, salary_inflation, one_time_payment) ==
    [total_holding_period |-> c.total_holding_period,
     monthly_rent |-> c.monthly_rent,
     annual_rent_increase |-> c.annual_rent_increase,
     other_income |-> c.other_income,
     vacancy_rate |-> c.vacancy_rate,
     property_tax |-> c.property_tax,
     property_tax_inflation |-> inflation.property_tax,
     insurance |-> c.insurance,
     insurance_inflation |-> inflation.insurance,
     utilities |-> c.utilities,
     utilities_inflation |-> inflation.utilities,
     mgmt_fee |-> c.mgmt_fee,
     mgmt_fee_inflation |-> inflation.mgmt_fee,
     monthly_maintenance |-> c.monthly_maintenance,
     conservative_rate |-> c.conservative_rate,
     hoa_fees |-> c.hoa_fees,
     hoa_inflation |-> inflation.hoa,
     annual_salary |-> annual_salary,
     salary_inflation |-> salary_inflation,
     one_time_payment |-> one_time_payment]

\* The caller passes the inputs of the cost breakdown; salary and the
\* inflation inputs are chosen freely.
TaxArgs(c) ==
    { TaxArgsOf(c, inflation, salary, 3, 0) :
        inflation \in InflationInputs, salary \in AnnualSalaries }

\* year_mortgage, lines 85-94
TaxYearMortgage(payments, loan, year) ==
    IF year < Len(payments) \div MonthsPerYear /\ year * MonthsPerYear < Len(loan)
    THEN LET start_idx == year * MonthsPerYear
             end_idx == Min(start_idx + MonthsPerYear, Len(loan))
             months_in_year == end_idx - start_idx
         IN  payments[start_idx + 1] * months_in_year
    ELSE 0

\* Lines 70-123: the values of one year (year from 0).
TaxYear(a, payments, loan, year) ==
    LET in_schedule == year < Len(payments) \div MonthsPerYear
                       /\ year * MonthsPerYear < Len(loan)
        start_idx == year * MonthsPerYear
        end_idx == Min(start_idx + MonthsPerYear, Len(loan))
        year_monthly_rent == Mul(Fx(a.monthly_rent), GrowthFactor(a.annual_rent_increase, year))
        year_monthly_income == year_monthly_rent + Fx(a.other_income)
        year_monthly_vacancy_loss ==
            Mul(year_monthly_income, DivInt(Fx(a.vacancy_rate), PercentBase))
        year_rental_income == (year_monthly_income - year_monthly_vacancy_loss) * MonthsPerYear
        year_property_tax ==
            Mul(Fx(a.property_tax), GrowthFactor(a.property_tax_inflation, year))
        year_insurance == Mul(Fx(a.insurance), GrowthFactor(a.insurance_inflation, year))
        year_utilities ==
            Mul(Fx(a.utilities), GrowthFactor(a.utilities_inflation, year)) * MonthsPerYear
        year_mgmt_fee ==
            Mul(Fx(a.mgmt_fee), GrowthFactor(a.mgmt_fee_inflation, year)) * MonthsPerYear
        year_maintenance == Mul(Fx(a.monthly_maintenance) * MonthsPerYear,
                                GrowthFactor(a.conservative_rate, year))
        year_hoa == Mul(Fx(a.hoa_fees), GrowthFactor(a.hoa_inflation, year)) * MonthsPerYear
        year_mortgage == TaxYearMortgage(payments, loan, year)
        year_operating_expenses == year_property_tax + year_insurance + year_utilities
                                   + year_mgmt_fee + year_maintenance + year_hoa
        year_net_rental == year_rental_income - year_operating_expenses - year_mortgage
                           + (IF year = 0 THEN Fx(a.one_time_payment) ELSE 0)
        year_salary == Mul(Fx(a.annual_salary), GrowthFactor(a.salary_inflation, year))
    IN  [year_rental_income |-> year_rental_income,
         year_property_tax |-> year_property_tax,
         year_insurance |-> year_insurance,
         year_utilities |-> year_utilities,
         year_mgmt_fee |-> year_mgmt_fee,
         year_maintenance |-> year_maintenance,
         year_hoa |-> year_hoa,
         year_interest |-> IF in_schedule
                           THEN SumSeq(Slice(Column(loan, "Interest"), start_idx, end_idx))
                           ELSE 0,
         year_mortgage |-> year_mortgage,
         year_net_rental |-> year_net_rental,
         year_salary |-> year_salary,
         year_total_income |-> year_salary + year_net_rental]

TaxYears(a, payments, loan) ==
    [y \in 1..a.total_holding_period |-> TaxYear(a, payments, loan, y - 1)]

\* calculate_tax_brackets raises ValueError on a negative income,
\* investment_metrics.py:139-140, called at lines 117 and 124.
TaxBracketsRaise(years) ==
    \E y \in 1..Len(years) : years[y].year_salary < 0 \/ years[y].year_total_income < 0

\* The arguments of the call: chosen the first time; the second time those
\* of the first call with the conservative_rate of the new cost breakdown.
TaxArgsNow ==
    IF tax_call.made
    THEN {[tax_call.a EXCEPT !.conservative_rate = cost_call.a.conservative_rate]}
    ELSE TaxArgs(cost_call.a)

CallYearlyTaxBreakdown ==
    /\ pc = "cost_done"
    /\ \E a \in TaxArgsNow :
          LET years == TaxYears(a, m_result.monthly_payments, df_loan)
          IN  /\ ~TaxBracketsRaise(years)
              /\ tax_call' = [made |-> TRUE, a |-> a, years |-> years, rows |-> <<>>]
    /\ tax_call_before' = tax_call
    /\ pc' = "tax_done"
    /\ UNCHANGED <<entry, args, raised, loanVars, repeatVars, scenarioVars, mortgageVars, lookupVars, payVars, engineVars, metricsVars, df_loan,
                   df_balance, cost_call, cost_call_before, equity, cacheVars>>

\* A year's income is negative: ValueError leaves the breakdown.
YearlyTaxBreakdownRaises ==
    /\ pc = "cost_done"
    /\ \E a \in TaxArgsNow :
          TaxBracketsRaise(TaxYears(a, m_result.monthly_payments, df_loan))
    /\ pc' = "raised"
    /\ raised' = "ValueError"
    /\ UNCHANGED <<entry, args, loanVars, repeatVars, scenarioVars, mortgageVars, lookupVars, payVars, engineVars, metricsVars, callerVars,
                   cacheVars>>

\* calculate_loan_details cannot return at line 44 here: without rate
\* periods loan_years is 0 and line 32 raises.
NextProjection ==
    \/ RejectMetricsArgs
    \/ CallLoanDetails
    \/ RejectLoanArgs
    \/ BeginSchedule
    \/ FinishSchedule
    \/ PayOffByOneTimePayment
    \/ PaymentRaises
    \/ BeginPeriod
    \/ MonthStep
    \/ EndPeriod
    \/ ComputeCashFlows
    \/ EquityStep
    \/ ReturnMetrics
    \/ BeginLoanTable
    \/ AppendLoanRow
    \/ CallYearlyBreakdown
    \/ CallYearlyTaxBreakdown
    \/ YearlyTaxBreakdownRaises

SpecProjection == InitProjection /\ [][NextProjection]_vars

----------------------------------------------------------------------------
(* calculate_cap_rate and calculate_coc_return called on their own,        *)
(* investment_metrics.py:109-121.                                          *)

Numerators == {-15, -1, 0, 1, 6, 19}
Denominators == {-100, -1, 0, 1, 20, 300}

RatioArgs == [numerator : Numerators, denominator : Denominators]

InitReturns ==
    /\ entry \in {"calculate_cap_rate", "calculate_coc_return"}
    /\ ratio_args \in RatioArgs
    /\ ratio_result = 0
    /\ irr_args = NoIrrArgs
    /\ irr_solver = "none"
    /\ irr_result = [nan |-> FALSE, value |-> 0]
    /\ tax_incomes = <<>>
    /\ tax_results = <<>>
    /\ pc = "ratio_entry"
    /\ raised = "none"
    /\ LoanIdle
    /\ PayIdle
    /\ MetricsIdle
    /\ CallerIdle
    /\ RepeatIdle
    /\ ScenarioIdle
    /\ MortgageIdle
    /\ LookupIdle
    /\ CacheIdle

\* calculate_cap_rate(noi, property_value), lines 110-114
CapRateReturns ==
    /\ entry = "calculate_cap_rate"
    /\ pc = "ratio_entry"
    /\ ratio_result' = calculate_cap_rate(Fx(ratio_args.numerator), Fx(ratio_args.denominator))
    /\ pc' = "returned"
    /\ UNCHANGED <<entry, args, raised, loanVars, repeatVars, scenarioVars, mortgageVars, lookupVars, payVars, ratio_args, irr_args, irr_solver,
                   irr_result, tax_incomes, tax_results, metricsVars, callerVars,
                   cacheVars>>

\* calculate_coc_return(annual_cash_flow, total_investment), lines 117-121
CocReturnReturns ==
    /\ entry = "calculate_coc_return"
    /\ pc = "ratio_entry"
    /\ ratio_result' =
          calculate_coc_return(Fx(ratio_args.numerator), Fx(ratio_args.denominator))
    /\ pc' = "returned"
    /\ UNCHANGED <<entry, args, raised, loanVars, repeatVars, scenarioVars, mortgageVars, lookupVars, payVars, ratio_args, irr_args, irr_solver,
                   irr_result, tax_incomes, tax_results, metricsVars, callerVars,
                   cacheVars>>

NextReturns ==
    \/ CapRateReturns
    \/ CocReturnReturns

SpecReturns == InitReturns /\ [][NextReturns]_vars

----------------------------------------------------------------------------
(* calculate_irr, investment_metrics.py:123-134.  npf.irr is a library     *)
(* root search: what it does with the flows is a choice among raising,     *)
(* returning NaN and returning a rate; flows without a change of sign have *)
(* no rate of return.                                                      *)

Outlays == {-10, 0, 60}
FinalValues == {-10, 0, 60, 100}
CashFlowLists == {<<>>, <<0, 0>>, <<5, 5>>, <<-1, -1>>, <<5, -1>>}
IrrArgs == [initial_investment : Outlays, cash_flows : CashFlowLists,
            final_value : FinalValues]

\* The rates a successful search returns, as fractions.
SolverRates == {-(Scale \div 2), 0, 8 * (Scale \div 100)}

\* [-initial_investment] + cash_flows + [final_value], line 129
Flows(a) == <<-a.initial_investment>> \o a.cash_flows \o <<a.final_value>>

SignChange(flows) ==
    /\ \E i \in 1..Len(flows) : flows[i] < 0
    /\ \E i \in 1..Len(flows) : flows[i] > 0

SolverOutcomes(flows) ==
    {[kind |-> "raises", value |-> 0], [kind |-> "nan", value |-> 0]}
    \cup (IF SignChange(flows)
          THEN {[kind |-> "rate", value |-> r] : r \in SolverRates}
          ELSE {})

\* The checks of lines 125-128.
IrrArgsRejected(a) == a.initial_investment < 0 \/ a.final_value < 0

InitIrr ==
    /\ entry = "calculate_irr"
    /\ irr_args \in IrrArgs
    /\ irr_solver = "none"
    /\ irr_result = [nan |-> FALSE, value |-> 0]
    /\ ratio_args = NoRatioArgs
    /\ ratio_result = 0
    /\ tax_incomes = <<>>
    /\ tax_results = <<>>
    /\ pc = "irr_entry"
    /\ raised = "none"
    /\ LoanIdle
    /\ PayIdle
    /\ MetricsIdle
    /\ CallerIdle
    /\ RepeatIdle
    /\ ScenarioIdle
    /\ MortgageIdle
    /\ LookupIdle
    /\ CacheIdle

IrrRejectsArgs ==
    /\ pc = "irr_entry"
    /\ IrrArgsRejected(irr_args)
    /\ pc' = "raised"
    /\ raised' = "ValueError"
    /\ UNCHANGED <<entry, args, loanVars, repeatVars, scenarioVars, mortgageVars, lookupVars, payVars, engineVars, metricsVars, callerVars,
                   cacheVars>>

\* Mutant of IrrValue: only the exception is turned into 0.0.
IrrValueNaNUnchecked(outcome) ==
    IF outcome.kind = "raises"
    THEN [nan |-> FALSE, value |-> 0]
    ELSE [nan |-> outcome.kind = "nan", value |-> outcome.value * PercentBase]

\* Lines 130-134: the value calculate_irr returns for what npf.irr did.
IrrValue(outcome) ==
    IF outcome.kind = "rate"
    THEN [nan |-> FALSE, value |-> outcome.value * PercentBase]
    ELSE [nan |-> FALSE, value |-> 0]

\* Lines 129-134.
IrrReturns ==
    /\ pc = "irr_entry"
    /\ ~IrrArgsRejected(irr_args)
    /\ \E outcome \in SolverOutcomes(Flows(irr_args)) :
          /\ irr_solver' = outcome.kind
          /\ irr_result' = IrrValue(outcome)
    /\ pc' = "returned"
    /\ UNCHANGED <<entry, args, raised, loanVars, repeatVars, scenarioVars, mortgageVars, lookupVars, payVars, ratio_args, ratio_result,
                   irr_args, tax_incomes, tax_results, metricsVars, callerVars, cacheVars>>

NextIrr ==
    \/ IrrRejectsArgs
    \/ IrrReturns

SpecIrr == InitIrr /\ [][NextIrr]_vars

----------------------------------------------------------------------------
(* calculate_tax_brackets, investment_metrics.py:136-169.  Incomes are     *)
(* whole amounts and rates are counted in RateUnit-ths, so that every      *)
(* product taxable_amount * rate is exact; tax amounts are in RateUnit-ths *)
(* of the income's unit.                                                   *)

RateUnit == 10 ^ 4

\* float('inf'), line 152
Infinity == 2147483647

\* Mutant of Brackets: the second bracket is taxed below the first.
BracketsRegressive ==
    << [threshold |-> 47564, rate |-> 2580],
       [threshold |-> 57375, rate |-> 1000],
       [threshold |-> 101200, rate |-> 3325],
       [threshold |-> 114750, rate |-> 3790],
       [threshold |-> 177882, rate |-> 4340],
       [threshold |-> 200000, rate |-> 4672],
       [threshold |-> 253414, rate |-> 4758],
       [threshold |-> 400000, rate |-> 5126],
       [threshold |-> Infinity, rate |-> 5040] >>

\* Mutant of Brackets: the top rate is above the rate of the bracket before.
BracketsRisingTop ==
    << [threshold |-> 47564, rate |-> 2580],
       [threshold |-> 57375, rate |-> 2775],
       [threshold |-> 101200, rate |-> 3325],
       [threshold |-> 114750, rate |-> 3790],
       [threshold |-> 177882, rate |-> 4340],
       [threshold |-> 200000, rate |-> 4672],
       [threshold |-> 253414, rate |-> 4758],
       [threshold |-> 400000, rate |-> 5126],
       [threshold |-> Infinity, rate |-> 5340] >>

\* Mutant of Brackets: the second bracket takes more than the income in it.
BracketsConfiscatory ==
    << [threshold |-> 47564, rate |-> 2580],
       [threshold |-> 57375, rate |-> 12000],
       [threshold |-> 101200, rate |-> 3325],
       [threshold |-> 114750, rate |-> 3790],
       [threshold |-> 177882, rate |-> 4340],
       [threshold |-> 200000, rate |-> 4672],
       [threshold |-> 253414, rate |-> 4758],
       [threshold |-> 400000, rate |-> 5126],
       [threshold |-> Infinity, rate |-> 5040] >>

\* brackets, lines 143-153
Brackets ==
    << [threshold |-> 47564, rate |-> 2580],
       [threshold |-> 57375, rate |-> 2775],
       [threshold |-> 101200, rate |-> 3325],
       [threshold |-> 114750, rate |-> 3790],
       [threshold |-> 177882, rate |-> 4340],
       [threshold |-> 200000, rate |-> 4672],
       [threshold |-> 253414, rate |-> 4758],
       [threshold |-> 400000, rate |-> 5126],
       [threshold |-> Infinity, rate |-> 5040] >>

\* Mutant of TaxIncomeRejected: zero is refused too.
TaxIncomeRejectedNonPositive(annual_salary) == annual_salary <= 0

\* Lines 139-140.
TaxIncomeRejected(annual_salary) == annual_salary < 0

\* Mutant of TaxableAmount: the slice of a bracket is not reduced by the
\* threshold before it.
TaxableAmountWholeThreshold(remaining_income, threshold, prev_threshold) ==
    Min(remaining_income, threshold)

\* taxable_amount, line 163
TaxableAmount(remaining_income, threshold, prev_threshold) ==
    Min(remaining_income, threshold - prev_threshold)

\* Mutant of SliceTax: the tax of a slice is cut to a whole amount.
SliceTaxWholeAmount(taxable_amount, rate) ==
    ((taxable_amount * rate) \div RateUnit) * RateUnit

\* taxable_amount * rate, line 165
SliceTax(taxable_amount, rate) == taxable_amount * rate

\* Lines 159-167 from bracket i on; an entry is keyed by its bracket, whose
\* label (rate and range text) no other bracket has.
RECURSIVE TaxWalk(_, _, _, _)
TaxWalk(i, remaining_income, prev_threshold, tax_paid) ==
    IF i > Len(Brackets) \/ remaining_income <= 0
    THEN tax_paid
    ELSE LET taxable_amount ==
                 TaxableAmount(remaining_income, Brackets[i].threshold, prev_threshold)
         IN  TaxWalk(i + 1, remaining_income - taxable_amount, Brackets[i].threshold,
                     IF taxable_amount > 0
                     THEN tax_paid @@ (i :> SliceTax(taxable_amount, Brackets[i].rate))
                     ELSE tax_paid)

\* The mapping returned for a salary that is not refused.
calculate_tax_brackets(annual_salary) == TaxWalk(1, annual_salary, 0, <<>>)

MaxEpsilon == 2

FiniteThresholds == {Brackets[i].threshold : i \in 1..(Len(Brackets) - 1)}

\* The incomes at and around every threshold ...
BoundaryIncomes ==
    FiniteThresholds
    \cup {t - e : t \in FiniteThresholds, e \in 1..MaxEpsilon}
    \cup {t + e : t \in FiniteThresholds, e \in 1..MaxEpsilon}

\* ... and some others, negative ones among them.
TaxIncomes == BoundaryIncomes \cup {-1000, -1, 0, 1, 40000, 150000, 450000}

\* What a caller asks for: two incomes, or the incomes below, at and above
\* a threshold.
TaxCallSequences ==
    {<<a, b>> : a \in TaxIncomes, b \in TaxIncomes}
    \cup {<<t - e, t, t + e>> : t \in FiniteThresholds, e \in 1..MaxEpsilon}

InitTax ==
    /\ entry = "calculate_tax_brackets"
    /\ tax_incomes \in TaxCallSequences
    /\ tax_results = <<>>
    /\ ratio_args = NoRatioArgs
    /\ ratio_result = 0
    /\ irr_args = NoIrrArgs
    /\ irr_solver = "none"
    /\ irr_result = [nan |-> FALSE, value |-> 0]
    /\ pc = "tax_entry"
    /\ raised = "none"
    /\ LoanIdle
    /\ PayIdle
    /\ MetricsIdle
    /\ CallerIdle
    /\ RepeatIdle
    /\ ScenarioIdle
    /\ MortgageIdle
    /\ LookupIdle
    /\ CacheIdle

NextIncome == tax_incomes[Len(tax_results) + 1]

\* Line 140: ValueError.
TaxBracketsRaises ==
    /\ pc = "tax_entry"
    /\ TaxIncomeRejected(NextIncome)
    /\ pc' = "raised"
    /\ raised' = "ValueError"
    /\ UNCHANGED <<entry, args, loanVars, repeatVars, scenarioVars, mortgageVars, lookupVars, payVars, engineVars, metricsVars, callerVars,
                   cacheVars>>

\* Lines 142-169: the mapping of the next income is returned.
TaxBracketsReturns ==
    /\ pc = "tax_entry"
    /\ ~TaxIncomeRejected(NextIncome)
    /\ tax_results' = Append(tax_results, calculate_tax_brackets(NextIncome))
    /\ pc' = IF Len(tax_results) + 1 = Len(tax_incomes) THEN "returned" ELSE "tax_entry"
    /\ UNCHANGED <<entry, args, raised, loanVars, repeatVars, scenarioVars, mortgageVars, lookupVars, payVars, ratio_args, ratio_result,
                   irr_args, irr_solver, irr_result, tax_incomes, metricsVars, callerVars,
                   cacheVars>>

NextTax ==
    \/ TaxBracketsRaises
    \/ TaxBracketsReturns

SpecTax == InitTax /\ [][NextTax]_vars

----------------------------------------------------------------------------
(* The lru_cache of the engine functions, investment_metrics.py:13, 100,   *)
(* 109, 116 and 136: a call whose arguments are in the cache returns the   *)
(* object stored there, the one an earlier call returned to its caller.    *)
(* Followed here for calculate_tax_brackets, which returns a dict, and     *)
(* calculate_cap_rate, which returns a float; maxsize=128 is not reached.  *)

MaxCalls == 3

CachedIncomes == {-1, 0, 1, 50000, 101200}
CachedRatios == [numerator : {0, 19}, denominator : {0, 300}]

InitCache ==
    /\ entry = "lru_cache"
    /\ CacheIdle
    /\ pc = "caller"
    /\ raised = "none"
    /\ LoanIdle
    /\ PayIdle
    /\ MetricsIdle
    /\ CallerIdle
    /\ RepeatIdle
    /\ ScenarioIdle
    /\ MortgageIdle
    /\ LookupIdle
    /\ EngineIdle

\* calculate_tax_brackets with an income not in the cache: the exception of
\* line 140 is not cached.
CachedTaxBracketsRaises ==
    /\ pc = "caller"
    /\ cache_steps < MaxCalls
    /\ \E income \in CachedIncomes :
          /\ income \notin DOMAIN tax_cache
          /\ TaxIncomeRejected(income)
          /\ last_call' = [fn |-> "calculate_tax_brackets", key |-> income, value |-> 0]
    /\ pc' = "raised"
    /\ raised' = "ValueError"
    /\ cache_steps' = cache_steps + 1
    /\ UNCHANGED <<entry, args, loanVars, repeatVars, scenarioVars, mortgageVars, lookupVars, payVars, engineVars, metricsVars, callerVars,
                   tax_cache, cap_cache>>

\* calculate_tax_brackets with an income not in the cache: the mapping is
\* computed, stored and returned.
CachedTaxBracketsMiss ==
    /\ pc = "caller"
    /\ cache_steps < MaxCalls
    /\ \E income \in CachedIncomes :
          /\ income \notin DOMAIN tax_cache
          /\ ~TaxIncomeRejected(income)
          /\ tax_cache' = tax_cache @@ (income :> calculate_tax_brackets(income))
          /\ last_call' = [fn |-> "calculate_tax_brackets", key |-> income,
                           value |-> calculate_tax_brackets(income)]
    /\ cache_steps' = cache_steps + 1
    /\ UNCHANGED <<entry, args, pc, raised, loanVars, repeatVars, scenarioVars, mortgageVars, lookupVars, payVars, engineVars, metricsVars,
                   callerVars, cap_cache>>

\* calculate_tax_brackets with an income in the cache: the stored mapping
\* is returned.
CachedTaxBracketsHit ==
    /\ pc = "caller"
    /\ cache_steps < MaxCalls
    /\ \E income \in DOMAIN tax_cache :
          last_call' = [fn |-> "calculate_tax_brackets", key |-> income,
                        value |-> tax_cache[income]]
    /\ cache_steps' = cache_steps + 1
    /\ UNCHANGED <<entry, args, pc, raised, loanVars, repeatVars, scenarioVars, mortgageVars, lookupVars, payVars, engineVars, metricsVars,
                   callerVars, tax_cache, cap_cache>>

\* The caller deletes an entry of a mapping an earlier call returned; the
\* mapping is the object in the cache.
CallerModifiesMapping ==
    /\ pc = "caller"
    /\ cache_steps < MaxCalls
    /\ \E income \in DOMAIN tax_cache :
          \E i \in DOMAIN tax_cache[income] :
              tax_cache' = [tax_cache EXCEPT ![income] =
                               [j \in (DOMAIN tax_cache[income]) \ {i} |->
                                   tax_cache[income][j]]]
    /\ cache_steps' = cache_steps + 1
    /\ UNCHANGED <<entry, args, pc, raised, loanVars, repeatVars, scenarioVars, mortgageVars, lookupVars, payVars, engineVars, metricsVars,
                   callerVars, cap_cache, last_call>>

\* calculate_cap_rate with arguments not in the cache.
CachedCapRateMiss ==
    /\ pc = "caller"
    /\ cache_steps < MaxCalls
    /\ \E a \in CachedRatios :
          /\ a \notin DOMAIN cap_cache
          /\ cap_cache' = cap_cache @@
                 (a :> calculate_cap_rate(Fx(a.numerator), Fx(a.denominator)))
          /\ last_call' = [fn |-> "calculate_cap_rate", key |-> a,
                           value |-> calculate_cap_rate(Fx(a.numerator), Fx(a.denominator))]
    /\ cache_steps' = cache_steps + 1
    /\ UNCHANGED <<entry, args, pc, raised, loanVars, repeatVars, scenarioVars, mortgageVars, lookupVars, payVars, engineVars, metricsVars,
                   callerVars, tax_cache>>

\* calculate_cap_rate with arguments in the cache.
CachedCapRateHit ==
    /\ pc = "caller"
    /\ cache_steps < MaxCalls
    /\ \E a \in DOMAIN cap_cache :
          last_call' = [fn |-> "calculate_cap_rate", key |-> a, value |-> cap_cache[a]]
    /\ cache_steps' = cache_steps + 1
    /\ UNCHANGED <<entry, args, pc, raised, loanVars, repeatVars, scenarioVars, mortgageVars, lookupVars, payVars, engineVars, metricsVars,
                   callerVars, tax_cache, cap_cache>>

NextCache ==
    \/ CachedTaxBracketsRaises
    \/ CachedTaxBracketsMiss
    \/ CachedTaxBracketsHit
    \/ CallerModifiesMapping
    \/ CachedCapRateMiss
    \/ CachedCapRateHit

SpecCache == InitCache /\ [][NextCache]_vars

----------------------------------------------------------------------------
(* The equity series of show(), investment_property.py:277-345: the loan   *)
(* schedule show() rebuilds from the payments (lines 277-289, the loop     *)
(* of lines 456-467 word for word), then one equity value per year and     *)
(* appreciation scenario.                                                  *)

\* closing_costs['total'], which the input handler hands over with the
\* purchase details (line 43).
ClosingCosts == {0, 3}

\* The conservative, moderate and optimistic appreciation rates, in percent
\* (lines 263-272).
AppreciationScenarios ==
    { [conservative_rate |-> 0, moderate_rate |-> 3, optimistic_rate |-> 5],
      [conservative_rate |-> 2, moderate_rate |-> 3, optimistic_rate |-> 10] }

\* purchase_price * (down_payment_pct / 100), the amount the input handler
\* returns next to the percentage (line 44).
DownPaymentAmount(price, down_payment_pct) ==
    Mul(Fx(price), DivInt(Fx(down_payment_pct), PercentBase))

\* sum([loan['Principal'] for loan in loan_schedule[:year*12]]), line 336
PrincipalPaid(loan_schedule, year) ==
    SumSeq(Column(Slice(loan_schedule, 0, year * MonthsPerYear), "Principal"))

\* purchase_price * ((1 + rate/100)**year - 1), lines 339-341
Appreciation(price, rate, year) == Mul(Fx(price), GrowthFactor(rate, year) - Scale)

\* Line 336: down payment + principal paid - closing costs.
BaseEquity(down_payment_amount, loan_schedule, closing_costs, year) ==
    down_payment_amount + PrincipalPaid(loan_schedule, year) - closing_costs

\* Lines 334-345 for one scenario: a value per year from 0 to
\* total_holding_period (years).
EquitySeries(down_payment_amount, loan_schedule, closing_costs, price, rate, years) ==
    [y \in 1..(years + 1) |->
        BaseEquity(down_payment_amount, loan_schedule, closing_costs, y - 1)
        + Appreciation(price, rate, y - 1)]

ComputeEquity ==
    /\ LoanTableBuilt
    /\ \E closing \in ClosingCosts, rates \in AppreciationScenarios :
          LET a == m_args
              down == DownPaymentAmount(a.purchase_price, a.down_payment_pct)
              Series(rate) == EquitySeries(down, df_loan, Fx(closing), a.purchase_price,
                                           rate, a.holding_period)
          IN  equity' = [made |-> TRUE,
                         down_payment_amount |-> down,
                         closing_costs |-> Fx(closing),
                         total_holding_period |-> a.holding_period,
                         rates |-> rates,
                         conservative_equity |-> Series(rates.conservative_rate),
                         moderate_equity |-> Series(rates.moderate_rate),
                         optimistic_equity |-> Series(rates.optimistic_rate)]
    /\ pc' = "equity_done"
    /\ UNCHANGED <<entry, args, raised, loanVars, repeatVars, scenarioVars, mortgageVars, lookupVars, payVars, engineVars, metricsVars, df_loan,
                   df_balance, cost_call, tax_call, cost_call_before, tax_call_before,
                   cacheVars>>

NextEquity ==
    \/ RejectMetricsArgs
    \/ CallLoanDetails
    \/ RejectLoanArgs
    \/ BeginSchedule
    \/ FinishSchedule
    \/ PayOffByOneTimePayment
    \/ PaymentRaises
    \/ BeginPeriod
    \/ MonthStep
    \/ EndPeriod
    \/ ComputeCashFlows
    \/ EquityStep
    \/ ReturnMetrics
    \/ BeginLoanTable
    \/ AppendLoanRow
    \/ ComputeEquity

SpecEquity == InitProjection /\ [][NextEquity]_vars

----------------------------------------------------------------------------
(* The two get_rate_for_month, investment_metrics.py:171-177 and           *)
(* investment_property.py:16-25 (calculators/investment_property.py:       *)
(* 130-140 is the same function), called on their own.                     *)

LookupPeriods == [rate : {4, 5}, years : 1..MaxYears, one_time_payment : {0}]
LookupRates == SeqsUpTo(LookupPeriods, MaxPeriods)

\* Months from before the schedule to after its end.
LookupMonths == -1..(MonthsPerYear * MaxPeriods * MaxYears + 1)

InitLookup ==
    /\ entry = "get_rate_for_month"
    /\ args = NoArgs
    /\ pc = "lookup_entry"
    /\ raised = "none"
    /\ LoanLocalsInit
    /\ PayIdle
    /\ MetricsIdle
    /\ CallerIdle
    /\ RepeatIdle
    /\ ScenarioIdle
    /\ MortgageIdle
    /\ EngineIdle
    /\ lookup_args \in [rates : LookupRates, month : LookupMonths]
    /\ lookup_result = NoLookup

\* get_rate_for_month of investment_metrics.py returns.
MetricsLookupReturns ==
    /\ pc = "lookup_entry"
    /\ ~lookup_result.metrics_done
    /\ lookup_result' = [lookup_result EXCEPT
          !.metrics_done = TRUE,
          !.metrics = get_rate_for_month(lookup_args.rates, lookup_args.month)]
    /\ pc' = IF lookup_result.caller_done THEN "returned" ELSE "lookup_entry"
    /\ UNCHANGED <<entry, args, raised, loanVars, repeatVars, scenarioVars, mortgageVars, lookup_args, payVars, engineVars,
                   metricsVars, callerVars, cacheVars>>

\* get_rate_for_month of investment_property.py returns.
CallerLookupReturns ==
    /\ pc = "lookup_entry"
    /\ ~lookup_result.caller_done
    /\ lookup_result' = [lookup_result EXCEPT
          !.caller_done = TRUE,
          !.caller = caller_get_rate_for_month(lookup_args.rates, lookup_args.month)]
    /\ pc' = IF lookup_result.metrics_done THEN "returned" ELSE "lookup_entry"
    /\ UNCHANGED <<entry, args, raised, loanVars, repeatVars, scenarioVars, mortgageVars, lookup_args, payVars, engineVars,
                   metricsVars, callerVars, cacheVars>>

NextLookup ==
    \/ MetricsLookupReturns
    \/ CallerLookupReturns

SpecLookup == InitLookup /\ [][NextLookup]_vars

----------------------------------------------------------------------------
(* calculate_mortgage_details, rent_vs_buy.py:18-32, and                   *)
(* FinancialCalculator.calculate_monthly_mortgage_payment,                 *)
(* financial_calculator.py:105-123.                                        *)

MortgageDownPayments == {20, 50, 100}
MortgageArgs ==
    [house_price : Prices, down_payment_pct : MortgageDownPayments,
     interest_rate : Rates, years : 0..MaxYears]

\* Mutant of LevelPayment: no loan / num_payments branch for rate 0.
LevelPaymentUnguarded(loan, interest_rate, num_payments) ==
    LET rate == DivInt(Fx(interest_rate), PercentBase * MonthsPerYear)
        growth == Pow(Scale + rate, num_payments)
    IN  IF growth = Scale THEN 0
        ELSE FDiv(Mul(loan, Mul(rate, growth)), growth - Scale)

\* rent_vs_buy.py:24-27: loan_amount / num_payments at rate 0, else
\* loan_amount * (monthly_rate * (1 + monthly_rate)**num_payments)
\*     / ((1 + monthly_rate)**num_payments - 1); num_payments is not 0.
\* (loan and rate stand for loan_amount and monthly_rate.)
LevelPayment(loan, interest_rate, num_payments) ==
    LET rate == DivInt(Fx(interest_rate), PercentBase * MonthsPerYear)
        growth == Pow(Scale + rate, num_payments)
    IN  IF interest_rate = 0
        THEN DivInt(loan, num_payments)
        ELSE FDiv(Mul(loan, Mul(rate, growth)), growth - Scale)

\* rent_vs_buy.py:20-32
calculate_mortgage_details(house_price, down_payment_pct, interest_rate, years) ==
    LET loan == Mul(Fx(house_price), Scale - DivInt(Fx(down_payment_pct), PercentBase))
        rate == DivInt(Fx(interest_rate), PercentBase * MonthsPerYear)
        num_payments == years * MonthsPerYear
        monthly_payment == LevelPayment(loan, interest_rate, num_payments)
        first_interest == Mul(loan, rate)
    IN  [made |-> TRUE,
         monthly_payment |-> monthly_payment,
         first_principal |-> monthly_payment - first_interest,
         first_interest |-> first_interest]

\* financial_calculator.py:116-122; years is not 0.
calculate_monthly_mortgage_payment(loan, interest_rate, years) ==
    LET rate == DivInt(Fx(interest_rate), PercentBase * MonthsPerYear)
        num_payments == years * MonthsPerYear
        growth == Pow(Scale + rate, num_payments)
    IN  IF interest_rate = 0
        THEN DivInt(loan, num_payments)
        ELSE FDiv(Mul(loan, Mul(rate, growth)), growth - Scale)

InitMortgage ==
    /\ entry = "calculate_mortgage_details"
    /\ args = NoArgs
    /\ pc = "mortgage_entry"
    /\ raised = "none"
    /\ LoanLocalsInit
    /\ PayIdle
    /\ MetricsIdle
    /\ CallerIdle
    /\ RepeatIdle
    /\ ScenarioIdle
    /\ EngineIdle
    /\ LookupIdle
    /\ mortgage_args \in MortgageArgs
    /\ mortgage_result = NoMortgage
    /\ utility_payment = NoPayment

\* A term of 0 years: both formulas divide by 0 (lines 25 and 27).
MortgageDetailsRaises ==
    /\ pc = "mortgage_entry"
    /\ mortgage_args.years = 0
    /\ pc' = "raised"
    /\ raised' = "ZeroDivisionError"
    /\ UNCHANGED <<entry, args, loanVars, repeatVars, scenarioVars, mortgageVars, lookupVars, payVars, engineVars,
                   metricsVars, callerVars, cacheVars>>

MortgageDetailsReturns ==
    /\ pc = "mortgage_entry"
    /\ mortgage_args.years # 0
    /\ mortgage_result' = calculate_mortgage_details(
                              mortgage_args.house_price, mortgage_args.down_payment_pct,
                              mortgage_args.interest_rate, mortgage_args.years)
    /\ pc' = "details_returned"
    /\ UNCHANGED <<entry, args, raised, loanVars, repeatVars, scenarioVars, mortgage_args, utility_payment, lookupVars,
                   payVars, engineVars, metricsVars, callerVars, cacheVars>>

\* The payment FinancialCalculator computes for the same loan.
MonthlyMortgagePaymentReturns ==
    /\ pc = "details_returned"
    /\ utility_payment' =
          [made |-> TRUE,
           value |-> calculate_monthly_mortgage_payment(
                         LoanAmount(mortgage_args.house_price, mortgage_args.down_payment_pct),
                         mortgage_args.interest_rate, mortgage_args.years)]
    /\ pc' = "returned"
    /\ UNCHANGED <<entry, args, raised, loanVars, repeatVars, scenarioVars, mortgage_args, mortgage_result, lookupVars,
                   payVars, engineVars, metricsVars, callerVars, cacheVars>>

NextMortgage ==
    \/ MortgageDetailsRaises
    \/ MortgageDetailsReturns
    \/ MonthlyMortgagePaymentReturns

SpecMortgage == InitMortgage /\ [][NextMortgage]_vars

\* ---------------------------------------------------------------------
\* FinancialCalculator.calculate_purchase_scenario
\* (utils/financial_calculator.py:8-103).
\* ---------------------------------------------------------------------

\* utils/constants.py CLOSING_COSTS, in whole currency units: their sum is
\* beyond the fixed-point range, so closing costs are not scaled.
LegalFees == 600
BankAppraisalFee == 250
InterestAdjustment == 500
TitleInsurance == 229
LandTransferBase == 1650
LandTransferThreshold == 200000
LandTransferRatePct == 2

\* financial_calculator.py:126-147; the total, in whole currency units.
calculate_closing_costs(house_price) ==
    LET land_transfer_tax ==
            IF house_price <= LandTransferThreshold
            THEN LandTransferBase
            ELSE LandTransferBase
                 + ((house_price - LandTransferThreshold) * LandTransferRatePct) \div PercentBase
    IN  LegalFees + BankAppraisalFee + InterestAdjustment + TitleInsurance + land_transfer_tax

ScenarioUtility == [base |-> Fx(1), inflation |-> 2]
PurchaseParams ==
    [house_price : Prices, down_payment_pct : MortgageDownPayments,
     interest_rate : Rates, years : 0..MaxYears,
     property_tax_rate : {1}, maintenance_rate : {1}, insurance : {Fx(2)},
     insurance_inflation : {2}, appreciation_rate : {3}, monthly_investment : {Fx(1)},
     investment_return : {7}, investment_increase_rate : {2},
     utilities : {[electricity |-> ScenarioUtility, water |-> ScenarioUtility,
                   other |-> ScenarioUtility]}]

\* models/rent_vs_buy_models.py:5-23: the fields YearlyPurchaseDetails has.
YearlyPurchaseDetailsFields ==
    {"year", "property_value", "yearly_mortgage", "property_tax", "maintenance",
     "insurance", "interest_paid", "principal_paid", "remaining_loan", "equity",
     "yearly_costs", "total_interest_to_date", "total_principal_to_date",
     "investment_portfolio", "investment_returns", "new_investments",
     "yearly_utilities"}

\* financial_calculator.py:79-98: the keywords the constructor is called with.
YearlyPurchaseDetailsKeywords == YearlyPurchaseDetailsFields \cup {"closing_costs"}

\* financial_calculator.py:56
PrincipalPayment(monthly_payment, interest_payment) == monthly_payment - interest_payment

InitPurchase ==
    /\ entry = "calculate_purchase_scenario"
    /\ args = NoArgs
    /\ pc = "scenario_entry"
    /\ raised = "none"
    /\ LoanLocalsInit
    /\ PayIdle
    /\ MetricsIdle
    /\ CallerIdle
    /\ RepeatIdle
    /\ EngineIdle
    /\ LookupIdle
    /\ MortgageIdle
    /\ purchase_params \in PurchaseParams
    /\ purchase = NoPurchase
    /\ yearly_details = <<>>
    /\ property_values = <<>>
    /\ equity_values = <<>>

\* Line 21 with a term of 0 years: calculate_monthly_mortgage_payment
\* divides by num_payments = 0, or by (1 + monthly_rate)**0 - 1 = 0.
PurchaseScenarioRaises ==
    /\ pc = "scenario_entry"
    /\ purchase_params.years = 0
    /\ pc' = "raised"
    /\ raised' = "ZeroDivisionError"
    /\ UNCHANGED <<entry, args, loanVars, repeatVars, scenarioVars, mortgageVars, lookupVars, payVars,
                   engineVars, metricsVars, callerVars, cacheVars>>

\* Lines 9-30.
BeginPurchaseScenario ==
    /\ pc = "scenario_entry"
    /\ purchase_params.years # 0
    /\ LET house_price == Fx(purchase_params.house_price)
           down_payment == Mul(house_price, DivInt(Fx(purchase_params.down_payment_pct), PercentBase))
           loan == house_price - down_payment
       IN  purchase' =
              [NoPurchase EXCEPT
                 !.loan_amount = loan,
                 !.monthly_rate = DivInt(Fx(purchase_params.interest_rate), PercentBase * MonthsPerYear),
                 !.initial_costs = calculate_closing_costs(purchase_params.house_price),
                 !.monthly_payment = calculate_monthly_mortgage_payment(
                                         loan, purchase_params.interest_rate, purchase_params.years),
                 !.current_monthly_investment = purchase_params.monthly_investment,
                 !.remaining_loan = loan,
                 !.current_insurance = purchase_params.insurance]
    /\ pc' = "scenario_year"
    /\ UNCHANGED <<entry, args, raised, loanVars, repeatVars, purchase_params, yearly_details, property_values,
                   equity_values, mortgageVars, lookupVars, payVars, engineVars, metricsVars,
                   callerVars, cacheVars>>

\* base * (1 + inflation/100)**year (lines 38-43)
UtilityInYear(utility, year) == Mul(utility.base, GrowthFactor(utility.inflation, year))

\* Lines 32-53: the head of the year's iteration.
BeginYear ==
    /\ pc = "scenario_year"
    /\ purchase.year < purchase_params.years
    /\ LET current_home_value ==
               Mul(Fx(purchase_params.house_price),
                   GrowthFactor(purchase_params.appreciation_rate, purchase.year))
           current_utilities ==
               UtilityInYear(purchase_params.utilities.electricity, purchase.year)
               + UtilityInYear(purchase_params.utilities.water, purchase.year)
               + UtilityInYear(purchase_params.utilities.other, purchase.year)
       IN  purchase' =
              [purchase EXCEPT
                 !.current_insurance = Mul(@, GrowthFactor(purchase_params.insurance_inflation, 1)),
                 !.yearly_utilities = current_utilities * MonthsPerYear,
                 !.current_home_value = current_home_value,
                 !.yearly_tax = Mul(current_home_value,
                                    DivInt(Fx(purchase_params.property_tax_rate), PercentBase)),
                 !.yearly_maintenance = Mul(current_home_value,
                                            DivInt(Fx(purchase_params.maintenance_rate), PercentBase)),
                 !.yearly_mortgage = purchase.monthly_payment * MonthsPerYear,
                 !.yearly_interest_paid = 0,
                 !.yearly_principal_paid = 0,
                 !.month = 0]
    /\ pc' = "scenario_month"
    /\ UNCHANGED <<entry, args, raised, loanVars, repeatVars, purchase_params, yearly_details, property_values,
                   equity_values, mortgageVars, lookupVars, payVars, engineVars, metricsVars,
                   callerVars, cacheVars>>

\* Lines 54-59: one month of the year.
ScenarioMonth ==
    /\ pc = "scenario_month"
    /\ purchase.month < MonthsPerYear
    /\ LET interest_payment == Mul(purchase.remaining_loan, purchase.monthly_rate)
           principal_payment == PrincipalPayment(purchase.monthly_payment, interest_payment)
       IN  purchase' =
              [purchase EXCEPT
                 !.remaining_loan = Max(0, @ - principal_payment),
                 !.yearly_interest_paid = @ + interest_payment,
                 !.yearly_principal_paid = @ + principal_payment,
                 !.month = @ + 1]
    /\ UNCHANGED <<entry, args, pc, raised, loanVars, repeatVars, purchase_params, yearly_details,
                   property_values, equity_values, mortgageVars, lookupVars, payVars, engineVars,
                   metricsVars, callerVars, cacheVars>>

\* Lines 61-98: the year's totals, then the construction of the year's
\* YearlyPurchaseDetails.  The call passes the keyword closing_costs, which
\* the dataclass does not have, so the constructor raises TypeError and the
\* appends of lines 79, 100 and 101 and the return of line 103 are not
\* reached.  (total_yearly_costs, equity and investment_returns are locals
\* that only the constructor call reads.)
AppendYearlyDetailsRaises ==
    /\ pc = "scenario_month"
    /\ purchase.month = MonthsPerYear
    /\ ~(YearlyPurchaseDetailsKeywords \subseteq YearlyPurchaseDetailsFields)
    /\ LET current_monthly_investment ==
               Mul(purchase.current_monthly_investment,
                   GrowthFactor(purchase_params.investment_increase_rate, 1))
           yearly_investment == current_monthly_investment * MonthsPerYear
       IN  purchase' =
              [purchase EXCEPT
                 !.current_monthly_investment = current_monthly_investment,
                 !.investment_portfolio =
                     Mul(@, GrowthFactor(purchase_params.investment_return, 1)) + yearly_investment,
                 !.total_interest_to_date = @ + purchase.yearly_interest_paid,
                 !.total_principal_to_date = @ + purchase.yearly_principal_paid]
    /\ pc' = "raised"
    /\ raised' = "TypeError"
    /\ UNCHANGED <<entry, args, loanVars, repeatVars, purchase_params, yearly_details, property_values,
                   equity_values, mortgageVars, lookupVars, payVars, engineVars, metricsVars,
                   callerVars, cacheVars>>

NextPurchase ==
    \/ PurchaseScenarioRaises
    \/ BeginPurchaseScenario
    \/ BeginYear
    \/ ScenarioMonth
    \/ AppendYearlyDetailsRaises

SpecPurchase == InitPurchase /\ [][NextPurchase]_vars

\* ---------------------------------------------------------------------
\* calculate_loan_details called twice with schedules that agree before
\* period k (investment_metrics.py:13-94).
\* ---------------------------------------------------------------------

\* The duration of every period of the schedules called twice.
RepeatYears == 1
RepeatPeriods ==
    { [rate |-> 0, years |-> RepeatYears, one_time_payment |-> 0],
      [rate |-> 6, years |-> RepeatYears, one_time_payment |-> 0],
      [rate |-> 12, years |-> RepeatYears, one_time_payment |-> 0],
      [rate |-> 6, years |-> RepeatYears, one_time_payment |-> 30] }
RepeatSchedules == SeqsUpTo(RepeatPeriods, MaxPeriods) \ {<<>>}

\* TRUE when two schedules have the same durations and the same periods
\* before period k.
AgreeBefore(rates, others, k) ==
    /\ Len(others) = Len(rates)
    /\ \A i \in 1..Len(rates) : others[i].years = rates[i].years
    /\ \A i \in 1..(k - 1) : others[i] = rates[i]

InitRepeat ==
    /\ entry = "calculate_loan_details"
    /\ args \in [price : {100}, down_payment_pct : {20},
                 interest_rates : RepeatSchedules, loan_years : {1}]
    /\ pc = "loan_entry"
    /\ raised = "none"
    /\ LoanLocalsInit
    /\ PayIdle
    /\ MetricsIdle
    /\ CallerIdle
    /\ ScenarioIdle
    /\ MortgageIdle
    /\ LookupIdle
    /\ EngineIdle
    /\ RepeatIdle

\* The caller keeps the schedule a call returned and calls again with the
\* rate and the one-time payment of period k and of the later periods
\* replaced; the second call starts from fresh locals.
CallAgain ==
    /\ pc = "returned"
    /\ ~earlier_call.made
    /\ \E k \in 1..Len(args.interest_rates), others \in RepeatSchedules :
          /\ AgreeBefore(args.interest_rates, others, k)
          /\ earlier_call' = [made |-> TRUE, interest_rates |-> args.interest_rates,
                              monthly_payments |-> monthly_payments, k |-> k]
          /\ args' = [args EXCEPT !.interest_rates = others]
    /\ pc' = "loan_entry"
    /\ loan_amount' = 0
    /\ loan_years' = 0
    /\ total_months' = 0
    /\ monthly_payments' = <<>>
    /\ remaining_principal' = 0
    /\ current_month' = 0
    /\ period' = 0
    /\ period_months' = 0
    /\ monthly_rate' = 0
    /\ payment' = 0
    /\ month_in_period' = 0
    /\ last_principal' = 0
    /\ last_interest' = 0
    /\ UNCHANGED <<entry, raised, payVars, scenarioVars, mortgageVars, lookupVars, engineVars,
                   metricsVars, callerVars, cacheVars>>

NextRepeat ==
    \/ BeginSchedule
    \/ FinishSchedule
    \/ PayOffByOneTimePayment
    \/ PaymentRaises
    \/ BeginPeriod
    \/ MonthStep
    \/ EndPeriod
    \/ CallAgain

SpecRepeat == InitRepeat /\ [][NextRepeat]_vars

----------------------------------------------------------------------------
(* Claims about calculate_loan_details and calculate_monthly_payment.      *)

Finished == pc \in {"returned", "raised"}

\* Number of months the schedule of a valid call has.
ScheduleLength(a) ==
    IF a.interest_rates = <<>>
    THEN MonthsPerYear * a.loan_years
    ELSE MonthsPerYear * SumYears(a.interest_rates)

AllZero(s) == \A i \in 1..Len(s) : s[i] = 0

\* C1: for a loan amount > 0 and a non-empty list of valid rate periods the
\* call returns a schedule after whose last month the remaining balance is 0
\* (up to rounding): the loan is fully repaid at the declared end.
C1_LoanFullyRepaid ==
    (/\ Finished
     /\ ~LoanArgsRejected(args)
     /\ args.interest_rates # <<>>
     /\ LoanAmount(args.price, args.down_payment_pct) > 0)
    => (pc = "returned" /\ remaining_principal <= Tol)

\* C2: a valid call returns 12 * (sum of the periods' years) payments when
\* there are rate periods, whatever loan_years is, and 12 * loan_years
\* payments, all 0, when there are none.
C2_TermFromPeriods ==
    (Finished /\ ~LoanArgsRejected(args))
    => /\ pc = "returned"
       /\ Len(monthly_payments) = ScheduleLength(args)
       /\ (args.interest_rates = <<>> => AllZero(monthly_payments))

\* C3: in every state of the amortization the remaining balance lies between
\* 0 and the loan amount.
C3_BalanceWithinLoan ==
    /\ 0 <= remaining_principal
    /\ remaining_principal <= loan_amount

\* C3 witness: a positive balance below the loan amount, after the one-time
\* payment of a second period and monthly steps of it.
C3_Witness ==
    /\ pc = "month"
    /\ period = 2
    /\ month_in_period > 0
    /\ args.interest_rates[2].one_time_payment > 0
    /\ 0 < remaining_principal
    /\ remaining_principal < loan_amount

\* C4: a schedule built from one zero-rate period on a loan amount > 0 is
\* returned without error, every payment being loan_amount / total_months
\* and all of it principal.
C4_ZeroRateStraightLine ==
    (/\ Finished
     /\ ~LoanArgsRejected(args)
     /\ Len(args.interest_rates) = 1
     /\ args.interest_rates[1].rate = 0
     /\ args.interest_rates[1].one_time_payment = 0
     /\ LoanAmount(args.price, args.down_payment_pct) > 0)
    => /\ pc = "returned"
       /\ \A i \in 1..Len(monthly_payments) :
             monthly_payments[i] = DivInt(loan_amount, total_months)
       /\ last_interest = 0

\* C5: when the loan amount is 0 (price 0 or 100% down payment) the call
\* returns loan_amount 0 and an all-zero schedule; its length is the one every
\* returned schedule of the same periods has, whatever the loan amount.
C5_ZeroLoanAllZero ==
    /\ (pc = "returned" => Len(monthly_payments) = ScheduleLength(args))
    /\ (/\ ~LoanArgsRejected(args)
        /\ entry = "calculate_loan_details"
        /\ (args.price = 0 \/ args.down_payment_pct = PercentBase))
       => /\ pc # "raised"
          /\ pc = "returned" => (loan_amount = 0 /\ AllZero(monthly_payments))

\* C5 witness: a returned schedule of a fully paid purchase over two periods,
\* the first at rate 0.
C5_Witness ==
    /\ pc = "returned"
    /\ args.price > 0
    /\ args.down_payment_pct = PercentBase
    /\ Len(args.interest_rates) = 2
    /\ args.interest_rates[1].rate = 0
    /\ Len(monthly_payments) > 0

PayArgsInvalid(a) == a.principal < 0 \/ a.annual_rate < 0 \/ a.term <= 0

\* C6: invalid input is refused at entry with a domain error (ValueError) and
\* nothing of a schedule is computed: by calculate_loan_details for a negative
\* price, a down payment outside [0,100] or a period with a negative rate, a
\* non-positive duration or a negative one-time payment, and by
\* calculate_monthly_payment for principal < 0, annual_rate < 0 or term <= 0.
C6_InvalidInputRejected ==
    /\ (Finished /\ entry = "calculate_loan_details" /\ LoanArgsRejected(args))
       => (raised = "ValueError" /\ monthly_payments = <<>>)
    /\ (Finished /\ entry = "calculate_monthly_payment" /\ PayArgsInvalid(pay_args))
       => raised = "ValueError"

----------------------------------------------------------------------------
(* Claims about the yearly projection.                                     *)

\* The payments of year y (from 1) of a schedule, 0 outside the schedule.
MortgagePaid(payments, y) ==
    IF y * MonthsPerYear <= Len(payments)
    THEN SumSeq(SubSeq(payments, (y - 1) * MonthsPerYear + 1, y * MonthsPerYear))
    ELSE 0

\* C7: for every valid input calculate_investment_metrics returns exactly
\* holding_period annual cash flows and 12 * holding_period monthly cash
\* flows, holding_period being the value the caller passed.
C7_HoldingPeriodEntries ==
    pc = "metrics_returned" =>
        /\ Len(m_result.annual_cash_flows) = m_args.holding_period
        /\ Len(m_result.monthly_cash_flows) = MonthsPerYear * m_args.holding_period

\* C8: in every projected year the mortgage of the cost breakdown and the
\* mortgage of the tax breakdown are both the sum of that year's 12 monthly
\* payments when the year lies inside the schedule and 0 otherwise, so the
\* two breakdowns agree for every schedule calculate_loan_details returns.
C8_SameYearlyMortgage ==
    (cost_call.made /\ tax_call.made) =>
        \A y \in 1..Len(tax_call.years) :
            /\ cost_call.years[y].year_mortgage = MortgagePaid(m_result.monthly_payments, y)
            /\ tax_call.years[y].year_mortgage = MortgagePaid(m_result.monthly_payments, y)
            /\ tax_call.years[y].year_mortgage = cost_call.years[y].year_mortgage

\* Both breakdowns have run on a schedule whose payment changes after the
\* first year and which ends before the projection does.
C8_Witness ==
    /\ cost_call.made
    /\ tax_call.made
    /\ Len(tax_call.years) > Len(m_result.monthly_payments) \div MonthsPerYear
    /\ Len(m_result.monthly_payments) = 2 * MonthsPerYear
    /\ tax_call.years[2].year_mortgage > 0
    /\ tax_call.years[2].year_mortgage # tax_call.years[1].year_mortgage

\* effective_income - mortgage_paid - costs for year (from 0)
NetCashFlow(a, year, mortgage_paid, costs) ==
    LET rent == Mul(Fx(a.monthly_rent), GrowthFactor(a.annual_rent_increase, year))
        effective_income == Mul((rent + Fx(a.other_income)) * MonthsPerYear,
                                ShareKept(a.vacancy_rate))
    IN  effective_income - mortgage_paid - costs

CategoryCosts(v) ==
    <<v.year_property_tax, v.year_insurance, v.year_utilities,
      v.year_mgmt_fee, v.year_maintenance, v.year_hoa>>

\* The 'Cash Flow' of calculate_yearly_breakdown is the net cash flow of
\* the year.
BreakdownCashFlowIsNet ==
    cost_call.made =>
        \A y \in 1..Len(cost_call.years) :
            Abs(cost_call.years[y].year_cash_flow
                - NetCashFlow(cost_call.a, y - 1,
                              MortgagePaid(m_result.monthly_payments, y),
                              SumSeq(CategoryCosts(cost_call.years[y])))) <= Tol

\* The annual cash flows of calculate_investment_metrics are the net cash
\* flows of the projection the caller asks for, its expenses taken as the
\* annual base amounts.
MetricsCashFlowIsNet ==
    cost_call.made =>
        \A y \in 1..Min(Len(cost_call.years), Len(m_result.annual_cash_flows)) :
            Abs(m_result.annual_cash_flows[y]
                - NetCashFlow(cost_call.a, y - 1,
                              MortgagePaid(m_result.monthly_payments, y),
                              Mul(AnnualExpenses(m_args),
                                  GrowthFactor(cost_call.a.annual_inflation, y - 1)))) <= Tol

\* C9: for every year the net cash flow is effective_income - mortgage_paid
\* - sum of the category costs, with effective_income = (rent_y +
\* other_income) * 12 * (1 - vacancy_pct/100); the annual cash flows of
\* calculate_investment_metrics and the 'Cash Flow' of
\* calculate_yearly_breakdown both equal it.
C9_NetCashFlow == BreakdownCashFlowIsNet /\ MetricsCashFlowIsNet

\* C10: every expense category compounds on its own: changing the
\* appreciation rate (conservative_rate) and nothing else leaves the cost of
\* each of the six categories unchanged in every year, in both breakdowns.
C10_CategoriesIndependent ==
    /\ (cost_call.made /\ cost_call_before.made
            /\ SameButConservativeRate(cost_call.a, cost_call_before.a)) =>
          \A y \in 1..Len(cost_call.years) :
              CategoryCosts(cost_call.years[y]) = CategoryCosts(cost_call_before.years[y])
    /\ (tax_call.made /\ tax_call_before.made
            /\ SameButConservativeRate(tax_call.a, tax_call_before.a)) =>
          \A y \in 1..Len(tax_call.years) :
              CategoryCosts(tax_call.years[y]) = CategoryCosts(tax_call_before.years[y])

----------------------------------------------------------------------------
(* Claims about the return metrics.                                        *)

\* C11: calculate_cap_rate and calculate_coc_return return
\* numerator / denominator * 100 when the denominator is positive and 0
\* otherwise, for every numerator; neither raises.
C11_GuardedDivision ==
    /\ entry \in {"calculate_cap_rate", "calculate_coc_return"} => pc # "raised"
    /\ (entry \in {"calculate_cap_rate", "calculate_coc_return"} /\ pc = "returned") =>
          IF ratio_args.denominator > 0
          THEN Abs(Mul(DivInt(ratio_result, PercentBase), Fx(ratio_args.denominator))
                   - Fx(ratio_args.numerator)) <= Tol
          ELSE ratio_result = 0

\* A call with a negative denominator and a non-zero numerator has returned.
C11_Witness ==
    /\ entry = "calculate_cap_rate"
    /\ pc = "returned"
    /\ ratio_args.denominator < 0
    /\ ratio_args.numerator # 0
    /\ ratio_result = 0

\* C12: for a non-negative initial outlay, any list of cash flows and a
\* non-negative terminal value calculate_irr never raises, and it returns 0.0
\* whenever the root search raises or yields NaN, as it does when all flows
\* are 0.
C12_IrrNeverRaises ==
    (entry = "calculate_irr" /\ irr_args.initial_investment >= 0
         /\ irr_args.final_value >= 0) =>
        /\ pc # "raised"
        /\ pc = "returned" =>
              /\ ~irr_result.nan
              /\ irr_solver \in {"raises", "nan"} => irr_result.value = 0
              /\ (\A i \in 1..Len(Flows(irr_args)) : Flows(irr_args)[i] = 0) =>
                    irr_result.value = 0

\* The root search yielded NaN on flows of both signs and the call returned.
C12_Witness ==
    /\ entry = "calculate_irr"
    /\ pc = "returned"
    /\ irr_solver = "nan"
    /\ SignChange(Flows(irr_args))
    /\ irr_result.value = 0

----------------------------------------------------------------------------
(* Claims about calculate_tax_brackets.                                    *)

LowerBound(i) == IF i = 1 THEN 0 ELSE Brackets[i - 1].threshold
Width(i) == Brackets[i].threshold - LowerBound(i)

RECURSIVE SumOver(_, _)
SumOver(f, S) ==
    IF S = {} THEN 0
    ELSE LET x == CHOOSE y \in S : TRUE IN f[x] + SumOver(f, S \ {x})

\* sum(tax_paid.values())
TotalTax(tax_paid) == SumOver(tax_paid, DOMAIN tax_paid)

\* C13: for an income > 0 the mapping has exactly one entry per bracket
\* whose lower bound is below the income, each equal to
\* min(remaining income, bracket width) * the bracket's rate; for income
\* 101200 the entries sum to
\* 47564*0.2580 + (57375-47564)*0.2775 + (101200-57375)*0.3325.
C13_OneEntryPerBracket ==
    \A k \in 1..Len(tax_results) :
        tax_incomes[k] > 0 =>
            /\ DOMAIN tax_results[k] =
                   {i \in 1..Len(Brackets) : LowerBound(i) < tax_incomes[k]}
            /\ \A i \in DOMAIN tax_results[k] :
                   tax_results[k][i] =
                       Min(tax_incomes[k] - LowerBound(i), Width(i)) * Brackets[i].rate
            /\ tax_incomes[k] = 101200 =>
                   TotalTax(tax_results[k]) =
                       47564 * 2580 + (57375 - 47564) * 2775 + (101200 - 57375) * 3325

\* The mapping of income 101200 has been returned: three entries.
C13_Witness ==
    \E k \in 1..Len(tax_results) :
        /\ tax_incomes[k] = 101200
        /\ DOMAIN tax_results[k] = 1..3

\* C14: calculate_tax_brackets raises ValueError for a negative income,
\* never returning a mapping for it, and returns an empty mapping for
\* income 0.
C14_NegativeRefusedZeroEmpty ==
    entry = "calculate_tax_brackets" =>
        /\ \A k \in 1..Len(tax_results) :
               /\ tax_incomes[k] >= 0
               /\ tax_incomes[k] = 0 => DOMAIN tax_results[k] = {}
        /\ pc = "raised" => (raised = "ValueError" /\ NextIncome < 0)

\* An empty mapping was returned for income 0, then a negative income raised.
C14_Witness ==
    /\ entry = "calculate_tax_brackets"
    /\ pc = "raised"
    /\ Len(tax_results) = 1
    /\ tax_incomes[1] = 0
    /\ DOMAIN tax_results[1] = {}

\* a / b < c / d for positive b and d and non-negative a and c, exactly
RECURSIVE FracLess(_, _, _, _)
FracLess(a, b, c, d) ==
    IF a \div b # c \div d THEN a \div b < c \div d
    ELSE IF c % d = 0 THEN FALSE
    ELSE IF a % b = 0 THEN TRUE
    ELSE FracLess(d, c % d, b, a % b)

\* The calls for the incomes below, at and above a threshold have returned.
AroundThreshold ==
    /\ entry = "calculate_tax_brackets"
    /\ Len(tax_incomes) = 3
    /\ Len(tax_results) = 3

\* C15: the total tax has no jump at a threshold T (it differs from tax(T)
\* by less than e at T - e and at T + e) and the effective rate total tax /
\* income is strictly larger at T + e than at T - e, for each of the eight
\* finite thresholds.
C15_ContinuousAndProgressive ==
    AroundThreshold =>
        LET e == tax_incomes[2] - tax_incomes[1]
            below == TotalTax(tax_results[1])
            at == TotalTax(tax_results[2])
            above == TotalTax(tax_results[3])
        IN  /\ at - below >= 0 /\ at - below < e * RateUnit
            /\ above - at >= 0 /\ above - at < e * RateUnit
            /\ FracLess(below, tax_incomes[1], above, tax_incomes[3])

\* The three calls around the last finite threshold have returned.
C15_Witness ==
    /\ AroundThreshold
    /\ tax_incomes[2] = 400000

\* Two incomes a < b of the same bracket i have been taxed.
SameBracket(i, a, b) == LowerBound(i) <= a /\ a < b /\ b <= Brackets[i].threshold

\* C16: for incomes a < b in the same bracket,
\* total_tax(b) - total_tax(a) = (b - a) * the bracket's rate.
C16_LinearWithinBracket ==
    (entry = "calculate_tax_brackets" /\ Len(tax_results) >= 2) =>
        \A i \in 1..Len(Brackets) :
            SameBracket(i, tax_incomes[1], tax_incomes[2]) =>
                TotalTax(tax_results[2]) - TotalTax(tax_results[1])
                    = (tax_incomes[2] - tax_incomes[1]) * Brackets[i].rate

\* Two incomes of the third bracket, far apart, have been taxed.
C16_Witness ==
    /\ entry = "calculate_tax_brackets"
    /\ Len(tax_results) = 2
    /\ tax_incomes = <<57377, 101199>>

\* C17: the thresholds of the table increase strictly from 0 to infinity
\* and the marginal rates increase strictly from each of the nine brackets
\* to the next.
C17_TableProgressive ==
    entry = "calculate_tax_brackets" =>
        /\ Brackets[1].threshold > 0
        /\ Brackets[Len(Brackets)].threshold = Infinity
        /\ \A i \in 1..(Len(Brackets) - 1) :
               /\ Brackets[i].threshold < Brackets[i + 1].threshold
               /\ Brackets[i].rate < Brackets[i + 1].rate

\* C17 as the table has it: the thresholds increase strictly from 0 to
\* infinity; the marginal rates increase strictly over the first eight
\* brackets, and the rate of the ninth, open-ended bracket lies below the
\* rate of the eighth.
C17_TableProgressiveBelowTop ==
    entry = "calculate_tax_brackets" =>
        /\ Brackets[1].threshold > 0
        /\ Brackets[Len(Brackets)].threshold = Infinity
        /\ \A i \in 1..(Len(Brackets) - 1) :
               Brackets[i].threshold < Brackets[i + 1].threshold
        /\ \A i \in 1..(Len(Brackets) - 2) : Brackets[i].rate < Brackets[i + 1].rate
        /\ Brackets[Len(Brackets)].rate < Brackets[Len(Brackets) - 1].rate

\* An income above the last finite threshold has been taxed in all nine
\* brackets, the ninth at a lower rate than the eighth.
C17_Witness ==
    /\ entry = "calculate_tax_brackets"
    /\ \E k \in 1..Len(tax_results) :
          /\ DOMAIN tax_results[k] = 1..Len(Brackets)
          /\ tax_results[k][9] = (tax_incomes[k] - 400000) * 5040

----------------------------------------------------------------------------
(* Claims about the cached functions.                                      *)

\* C18: every call of a cached function returns what a fresh computation on
\* the same arguments returns, also after a caller has modified a mapping
\* that an earlier call returned.
C18_MemoizationTransparent ==
    /\ (last_call.fn = "calculate_tax_brackets" /\ pc # "raised") =>
          last_call.value = calculate_tax_brackets(last_call.key)
    /\ last_call.fn = "calculate_cap_rate" =>
          last_call.value =
              calculate_cap_rate(Fx(last_call.key.numerator), Fx(last_call.key.denominator))

----------------------------------------------------------------------------
\* C19: on inputs with non-negative amounts, percentages within 0..100 and
\* a positive holding period, calculate_yearly_tax_breakdown never raises
\* and returns total_holding_period rows.  The arguments the caller draws
\* (TaxArgs) are all of that kind; once the cost breakdown has been called,
\* the only call that can raise is the tax breakdown.
C19_TaxBreakdownTotal ==
    /\ ~(pc = "raised" /\ cost_call.made)
    /\ tax_call.made => Len(tax_call.years) = tax_call.a.total_holding_period

----------------------------------------------------------------------------
(* Claims about the equity series.                                         *)

\* The one-time payments of a schedule, which the amortizer takes off the
\* balance at the start of their periods.
RECURSIVE SumOneTimePayments(_)
SumOneTimePayments(rates) ==
    IF rates = <<>> THEN 0
    ELSE Fx(Head(rates).one_time_payment) + SumOneTimePayments(Tail(rates))

\* What the equity of year y holds beyond down payment, closing costs and
\* appreciation: the principal show() counts as paid by then.
PrincipalInEquity(series, rate, y) ==
    series[y + 1] - (equity.down_payment_amount - equity.closing_costs
                     + Appreciation(m_args.purchase_price, rate, y))

\* At the end of the schedule the amortizer has repaid
\* loan_amount - remaining_principal, its one-time payments included; the
\* instalments alone repaid that less the one-time payments it applied.
RepaidByAmortizer(principal) ==
    /\ principal >= loan_amount - remaining_principal
                    - SumOneTimePayments(m_args.interest_rates) - Tol
    /\ principal <= loan_amount - remaining_principal + Tol

EquityFollowsAmortizer(series, rate) ==
    /\ series[1] = equity.down_payment_amount - equity.closing_costs
    /\ equity.total_holding_period >= m_holding =>
          RepaidByAmortizer(PrincipalInEquity(series, rate, equity.total_holding_period))

\* C20: the equity of every year and scenario is down payment + principal
\* paid in the first 12*y months - closing costs + appreciation, where the
\* principal is what the amortizer's schedule repaid by then: year 0 is
\* down payment - closing costs, and in the last year of the schedule the
\* principal counted is what the amortizer took off the loan, with or
\* without its one-time payments.
C20_EquityFromAmortizer ==
    equity.made =>
        /\ EquityFollowsAmortizer(equity.conservative_equity, equity.rates.conservative_rate)
        /\ EquityFollowsAmortizer(equity.moderate_equity, equity.rates.moderate_rate)
        /\ EquityFollowsAmortizer(equity.optimistic_equity, equity.rates.optimistic_rate)

\* Without one-time payments the schedule show() rebuilds is the
\* amortizer's, and the equity is as C20 says.
EquityWithoutOneTimePayments ==
    (equity.made /\ SumOneTimePayments(m_args.interest_rates) = 0) => C20_EquityFromAmortizer

\* A schedule with interest and no one-time payment reached the equity.
EquityWithoutOneTimePaymentsWitness ==
    /\ equity.made
    /\ SumOneTimePayments(m_args.interest_rates) = 0
    /\ loan_amount > 0
    /\ remaining_principal < loan_amount
    /\ equity.total_holding_period >= m_holding

----------------------------------------------------------------------------
(* Claims about the months of the schedule.                                *)

Last(s) == s[Len(s)]

\* A month of the amortization on a positive balance (lines 83-86).
AmortizingMonth ==
    /\ pc = "month"
    /\ pc' = "month"
    /\ month_in_period' = month_in_period + 1
    /\ remaining_principal > 0

\* C22: on every scheduled month with a positive balance the interest is
\* balance * monthly rate of the month's period and interest + principal is
\* the payment recorded in the schedule, except in the month that clears
\* the balance, where the principal is the remaining balance; the rows of
\* the schedule show() rebuilds add up to the recorded payment as well.
C22_PaymentSplits ==
    /\ [][AmortizingMonth =>
            /\ last_interest' = Mul(remaining_principal,
                                    MonthlyRate(args.interest_rates[period].rate))
            /\ \/ last_interest' + last_principal' = Last(monthly_payments')
               \/ /\ last_principal' = remaining_principal
                  /\ remaining_principal' = 0
                  /\ last_interest' + last_principal' < Last(monthly_payments')]_vars
    /\ [](\A i \in 1..Len(df_loan) :
             df_loan[i].Interest + df_loan[i].Principal = m_result.monthly_payments[i])

\* A month of a second period, after its one-time payment, has been
\* amortized with interest, and show() has rebuilt the schedule.
C22_Witness ==
    /\ Len(args.interest_rates) = 2
    /\ args.interest_rates[2].one_time_payment > 0
    /\ last_interest > 0
    /\ last_principal > 0
    /\ last_interest + last_principal = payment
    /\ Len(df_loan) = Len(monthly_payments)
    /\ Len(df_loan) > MonthsPerYear
    /\ Last(monthly_payments) > 0

\* The period the loop is about to enter, with a balance left (line 57-59).
ThisPeriod == args.interest_rates[period]

\* C23: the one-time payment of a period comes off the balance before the
\* level payment of the period is computed, and not below 0: when it is at
\* least the balance the balance becomes 0 and the period is all zeros; from
\* a balance of 0 the rest of the schedule is zeros up to 12 * (sum of
\* years) entries; otherwise the level payment is computed on the balance
\* less the one-time payment.
C23_OneTimePaymentFirst ==
    /\ [][(PeriodEntered /\ Fx(ThisPeriod.one_time_payment) >= remaining_principal) =>
            /\ remaining_principal' = 0
            /\ monthly_payments' =
                  monthly_payments \o Zeros(ThisPeriod.years * MonthsPerYear)
            /\ pc' = "period"]_vars
    /\ [][(pc = "period" /\ period > 1 /\ remaining_principal = 0) =>
            /\ pc' = "returned"
            /\ AllZero(SubSeq(monthly_payments', Len(monthly_payments) + 1,
                              Len(monthly_payments')))
            /\ Len(monthly_payments') = MonthsPerYear * SumYears(args.interest_rates)
            /\ remaining_principal' = 0]_vars
    /\ [][(PeriodEntered /\ pc' = "month") =>
            /\ remaining_principal' =
                  remaining_principal - Fx(ThisPeriod.one_time_payment)
            /\ payment' = calculate_monthly_payment(
                              remaining_principal - Fx(ThisPeriod.one_time_payment),
                              ThisPeriod.rate, total_months - current_month)]_vars

\* A loan amortized at interest over a first period and cleared by the
\* one-time payment of the second, whose months are all 0; the schedule has
\* its full length.
C23_Witness ==
    /\ pc = "returned"
    /\ Len(args.interest_rates) = 2
    /\ args.interest_rates[1].rate > 0
    /\ args.interest_rates[1].one_time_payment > 0
    /\ Fx(args.interest_rates[2].one_time_payment) > loan_amount
    /\ loan_amount > 0
    /\ remaining_principal = 0
    /\ monthly_payments[args.interest_rates[1].years * MonthsPerYear] > 0
    /\ Last(monthly_payments) = 0
    /\ Len(monthly_payments) = MonthsPerYear * SumYears(args.interest_rates)

\* The months before period k of a list of rate periods.
MonthsBefore(rates, k) == MonthsPerYear * SumYears(SubSeq(rates, 1, k - 1))

NoOneTimePayments(rates) == \A i \in 1..Len(rates) : rates[i].one_time_payment = 0

\* C24: in a returned schedule of a loan amount > 0 without one-time
\* payments, the payments of one period are all equal, the payment changes
\* at a boundary between periods whose rates differ, and it rises where
\* the later rate is the higher one.
C24_PaymentFollowsRate ==
    (/\ pc = "returned"
     /\ entry = "calculate_loan_details"
     /\ loan_amount > 0
     /\ NoOneTimePayments(args.interest_rates)) =>
        LET rates == args.interest_rates
            First(k) == monthly_payments[MonthsBefore(rates, k) + 1]
            Final(k) == monthly_payments[MonthsBefore(rates, k + 1)]
        IN  /\ \A k \in 1..Len(rates) :
                  \A m \in (MonthsBefore(rates, k) + 1)..MonthsBefore(rates, k + 1) :
                     monthly_payments[m] = First(k)
            /\ \A k \in 1..(Len(rates) - 1) :
                  /\ rates[k + 1].rate # rates[k].rate => First(k + 1) # Final(k)
                  /\ rates[k + 1].rate > rates[k].rate => First(k + 1) > Final(k)

\* A returned schedule whose second period has the higher rate and the
\* higher payment.
C24_Witness ==
    /\ pc = "returned"
    /\ entry = "calculate_loan_details"
    /\ Len(args.interest_rates) = 2
    /\ NoOneTimePayments(args.interest_rates)
    /\ args.interest_rates[2].rate > args.interest_rates[1].rate
    /\ monthly_payments[1] > 0
    /\ Last(monthly_payments) > monthly_payments[1]

\* C25: for every valid input of calculate_investment_metrics, one-time
\* payments included, equity_from_principal lies between 0 and the loan
\* amount, is 0 when the loan amount is 0, and total_equity is
\* equity_from_principal + equity_from_appreciation.
C25_EquityFromPrincipalBounded ==
    pc = "metrics_returned" =>
        /\ m_result.equity_from_principal >= -Tol
        /\ m_result.equity_from_principal <= loan_amount + Tol
        /\ loan_amount = 0 => m_result.equity_from_principal = 0
        /\ m_result.total_equity =
              m_result.equity_from_principal + m_result.equity_from_appreciation

\* Period p of the list covers month m.
Covers(rates, p, m) == MonthsBefore(rates, p) <= m /\ m < MonthsBefore(rates, p + 1)

\* C26: for a month of the schedule both get_rate_for_month return the
\* rate of the one period whose months [start, start + 12 * years) contain
\* it, and both return 0 for an empty list of periods.
C26_RateOfCoveringPeriod ==
    (lookup_result.metrics_done /\ lookup_result.caller_done) =>
        LET rates == lookup_args.rates
            m == lookup_args.month
        IN  /\ rates = <<>> => (lookup_result.metrics = 0 /\ lookup_result.caller = 0)
            /\ (0 <= m /\ m < MonthsBefore(rates, Len(rates) + 1)) =>
                  \E p \in 1..Len(rates) :
                     /\ Covers(rates, p, m)
                     /\ \A q \in 1..Len(rates) : Covers(rates, q, m) => q = p
                     /\ lookup_result.metrics = rates[p].rate
                     /\ lookup_result.caller = rates[p].rate

\* Both lookups returned for the first month of a second period whose rate
\* differs from the first.
C26_Witness ==
    /\ lookup_result.metrics_done
    /\ lookup_result.caller_done
    /\ Len(lookup_args.rates) = 2
    /\ lookup_args.rates[1].rate # lookup_args.rates[2].rate
    /\ lookup_args.month = MonthsBefore(lookup_args.rates, 2)
    /\ lookup_result.metrics = lookup_args.rates[2].rate

\* C28: every payment of a schedule of calculate_loan_details is >= 0, and
\* after a month with payment 0 every later month has payment 0.
C28_ZeroPaymentsStayZero ==
    entry = "calculate_loan_details" =>
        /\ \A i \in 1..Len(monthly_payments) : monthly_payments[i] >= 0
        /\ \A i \in 1..Len(monthly_payments) :
              monthly_payments[i] = 0 =>
                 \A j \in i..Len(monthly_payments) : monthly_payments[j] = 0

\* A returned schedule that starts with positive payments at interest and
\* ends, one period later, with payments of 0.
C28_Witness ==
    /\ entry = "calculate_loan_details"
    /\ pc = "returned"
    /\ Len(args.interest_rates) = 2
    /\ args.interest_rates[1].one_time_payment = 0
    /\ monthly_payments[1] > 0
    /\ monthly_payments[MonthsBefore(args.interest_rates, 2)] > 0
    /\ monthly_payments[MonthsBefore(args.interest_rates, 2) + 1] = 0

----------------------------------------------------------------------------
(* Claims about the tax and the income after it.                           *)

\* A tax amount, held in RateUnit-ths, is at most a whole amount.
TaxAtMost(tax, amount) == (tax + RateUnit - 1) \div RateUnit <= amount

\* C29: for incomes 0 <= a <= b the total tax of a is at most the total
\* tax of b and at most a, and the income after tax, a - total_tax(a), is
\* never negative and not above b - total_tax(b).
C29_AfterTaxIncomeMonotone ==
    (/\ entry = "calculate_tax_brackets"
     /\ Len(tax_results) >= 2
     /\ 0 <= tax_incomes[1]
     /\ tax_incomes[1] <= tax_incomes[2]) =>
        LET a == tax_incomes[1]
            b == tax_incomes[2]
            tax_a == TotalTax(tax_results[1])
            tax_b == TotalTax(tax_results[2])
        IN  /\ tax_a <= tax_b
            /\ TaxAtMost(tax_a, a)
            /\ TaxAtMost(tax_b, b)
            /\ TaxAtMost(tax_b - tax_a, b - a)

\* An income of the first bracket and one of the last have been taxed.
C29_Witness ==
    /\ entry = "calculate_tax_brackets"
    /\ Len(tax_results) = 2
    /\ tax_incomes = <<40000, 450000>>
    /\ TotalTax(tax_results[1]) > 0
    /\ TotalTax(tax_results[2]) > TotalTax(tax_results[1])

----------------------------------------------------------------------------
(* Claims about the rent-or-buy mortgage.                                  *)

\* C21: for loan = house_price * (1 - down_payment_pct / 100),
\* calculate_mortgage_details returns the level annuity payment over
\* 12 * years months (loan / (12 * years) at zero interest),
\* first_interest = loan * monthly rate and
\* first_principal = monthly_payment - first_interest; first_interest is 0
\* at zero interest, all three are 0 at 100% down payment, and the payment
\* is the one calculate_monthly_mortgage_payment returns for that loan.
C21_MortgageDetails ==
    mortgage_result.made =>
        LET a == mortgage_args
            loan == LoanAmount(a.house_price, a.down_payment_pct)
            months == MonthsPerYear * a.years
            m == mortgage_result
        IN  /\ IF a.interest_rate = 0
               THEN m.monthly_payment = DivInt(loan, months)
               ELSE Abs(m.monthly_payment
                        - calculate_monthly_payment(loan, a.interest_rate, months)) <= Tol
            /\ m.first_interest = Mul(loan, MonthlyRate(a.interest_rate))
            /\ m.first_principal = m.monthly_payment - m.first_interest
            /\ a.interest_rate = 0 => m.first_interest = 0
            /\ a.down_payment_pct = PercentBase =>
                  (m.monthly_payment = 0 /\ m.first_principal = 0 /\ m.first_interest = 0)
            /\ utility_payment.made => utility_payment.value = m.monthly_payment

\* Both functions returned for a loan at interest, with a payment that
\* covers the first interest and some principal.
C21_Witness ==
    /\ mortgage_result.made
    /\ utility_payment.made
    /\ mortgage_args.interest_rate > 0
    /\ mortgage_args.years > 1
    /\ mortgage_result.first_interest > 0
    /\ mortgage_result.first_principal > 0

\* The rounding of one month's payment, accumulated over a year of months.
ScenarioTol == MonthsPerYear * Tol

PurchaseScenarioEnded ==
    /\ entry = "calculate_purchase_scenario"
    /\ pc \in {"returned", "raised"}
    /\ purchase_params.years # 0

\* What the months of the one year that runs do keep: the balance is not
\* negative and, with the principal paid, adds up to the loan.
YearOfPaymentsBalances ==
    PurchaseScenarioEnded =>
        /\ purchase.remaining_loan >= 0
        /\ Abs(purchase.total_principal_to_date + purchase.remaining_loan
               - purchase.loan_amount) <= ScenarioTol

\* C30: in calculate_purchase_scenario, after every simulated year
\* remaining_loan >= 0 and total_principal_to_date + remaining_loan equals
\* loan_amount, and after the last of the params.years years the
\* remaining loan is 0: a call over one year or more ends with every year
\* recorded, the balance identity kept and the loan repaid.
C30_LoanRepaidAfterLastYear ==
    PurchaseScenarioEnded =>
        /\ purchase.remaining_loan >= 0
        /\ Abs(purchase.total_principal_to_date + purchase.remaining_loan
               - purchase.loan_amount) <= ScenarioTol
        /\ purchase.remaining_loan <= ScenarioTol

BothCallsReturned ==
    /\ entry = "calculate_loan_details"
    /\ earlier_call.made
    /\ pc = "returned"

\* C27: for a fixed price, down payment and period durations, the payments
\* of the months before period k's first month do not depend on the rate or
\* the one-time payment of period k or of a later period: two returned
\* schedules whose periods agree before period k have the same payments in
\* those months.
C27_EarlierPaymentsIndependent ==
    BothCallsReturned =>
        \A m \in 1..MonthsBefore(args.interest_rates, earlier_call.k) :
            monthly_payments[m] = earlier_call.monthly_payments[m]

C27_Witness ==
    /\ BothCallsReturned
    /\ earlier_call.k = 2
    /\ args.interest_rates[2].rate # earlier_call.interest_rates[2].rate
    /\ LET before == MonthsBefore(args.interest_rates, 2) IN
        /\ monthly_payments[before] > 0
        /\ monthly_payments[before] = earlier_call.monthly_payments[before]
        /\ monthly_payments[before + 1] # earlier_call.monthly_payments[before + 1]

====
